---- MODULE Spec2Model ----
(***************************************************************************)
(* Model of the SQL statement identifier: the tokenizer (ScanToken and its *)
(* scanners), the top-level Parse loop with its CTE tracking, the          *)
(* state-machine statement parser (AddToken) and the Identify entry point. *)
(*                                                                         *)
(* Text is a sequence of one-character strings; offsets are 0-based as in  *)
(* the source, so the character at offset i of input is input[i + 1].      *)
(* Custom (regular-expression) parameter patterns are not modelled:        *)
(* ParamTypes.Custom is empty in every configuration of this model.        *)
(***************************************************************************)
EXTENDS Integers, Sequences, FiniteSets, TLC

(***************************************************************************)
(* Characters                                                              *)
(***************************************************************************)
LowerLetters ==
  <<"a","b","c","d","e","f","g","h","i","j","k","l","m",
    "n","o","p","q","r","s","t","u","v","w","x","y","z">>

UpperLetters ==
  <<"A","B","C","D","E","F","G","H","I","J","K","L","M",
    "N","O","P","Q","R","S","T","U","V","W","X","Y","Z">>

Digits == {"0","1","2","3","4","5","6","7","8","9"}

Range(s) == { s[i] : i \in DOMAIN s }

LowerSet  == Range(LowerLetters)
LetterSet == Range(LowerLetters) \cup Range(UpperLetters) \cup {"_"}
UpperOf   == [ ch \in LowerSet |->
                 UpperLetters[CHOOSE i \in 1..26 : LowerLetters[i] = ch] ]

eof == "EOF"

\* the backtick character, which cannot be written in a string literal here
Backtick == "<backtick>"

\* the only character of the model's alphabet that is wider than one byte
NonAscii == "é"

\* number of bytes of the UTF-8 encoding of a character
ByteWidth(ch) == IF ch = NonAscii \/ ch = "É" THEN 2 ELSE 1

RECURSIVE ByteLen(_)
ByteLen(s) == IF s = <<>> THEN 0 ELSE ByteWidth(s[1]) + ByteLen(Tail(s))

ToUpperChar(ch) ==
  IF ch \in LowerSet THEN UpperOf[ch]
  ELSE IF ch = NonAscii THEN "É" ELSE ch

ToUpper(s) == [ i \in DOMAIN s |-> ToUpperChar(s[i]) ]

RECURSIVE Str(_)
Str(s) == IF s = <<>> THEN "" ELSE s[1] \o Str(Tail(s))

\* strings.ToUpper(value) as a string, for comparison with keyword literals
Up(value) == Str(ToUpper(value))

At(input, i) == input[i + 1]

\* input[from : to] of the source: offsets from .. to-1
Slice(input, from, to) == SubSeq(input, from + 1, to)

(***************************************************************************)
(* Dialects, token types, statement types                                  *)
(***************************************************************************)
DialectMSSQL    == "mssql"
DialectSQLite   == "sqlite"
DialectMySQL    == "mysql"
DialectOracle   == "oracle"
DialectPSQL     == "psql"
DialectBigQuery == "bigquery"
DialectGeneric  == "generic"

DIALECTS ==
  { DialectMSSQL, DialectSQLite, DialectMySQL, DialectOracle,
    DialectPSQL, DialectBigQuery, DialectGeneric }

TokenWhitespace    == "whitespace"
TokenCommentInline == "comment-inline"
TokenCommentBlock  == "comment-block"
TokenString        == "string"
TokenSemicolon     == "semicolon"
TokenKeyword       == "keyword"
TokenParameter     == "parameter"
TokenUnknown       == "unknown"

StatementUnknown   == "UNKNOWN"
StatementAnonBlock == "ANON_BLOCK"
StatementSelect    == "SELECT"
StatementInsert    == "INSERT"

ExecutionListing      == "LISTING"
ExecutionModification == "MODIFICATION"
ExecutionAnonBlock    == "ANON_BLOCK"
ExecutionUnknown      == "UNKNOWN"

keywords ==
  { "SELECT", "INSERT", "DELETE", "UPDATE", "CREATE", "DROP", "DATABASE",
    "SCHEMA", "TABLE", "VIEW", "TRIGGER", "FUNCTION", "INDEX", "ALTER",
    "TRUNCATE", "WITH", "AS", "MATERIALIZED", "BEGIN", "DECLARE", "CASE",
    "LOOP", "IF", "REPEAT", "WHILE", "FOR", "PROCEDURE", "SHOW", "DATABASES",
    "KEYS", "TABLES", "COLUMNS", "STATUS", "BINARY", "BINLOG", "CHARACTER",
    "COLLATION", "ENGINE", "ENGINES", "ERRORS", "EVENTS", "GRANTS", "MASTER",
    "OPEN", "PLUGINS", "PRIVILEGES", "PROCESSLIST", "PROFILE", "PROFILES",
    "RELAYLOG", "REPLICAS", "SLAVE", "REPLICA", "TRIGGERS", "VARIABLES",
    "WARNINGS" }

\* closing delimiter of an opening quote character
endTokens(ch) == IF ch = "[" THEN "]" ELSE ch

(***************************************************************************)
(* Tokenizer.  A scan state is the pair (Start, Position) over the input;  *)
(* every scanner returns the token together with the final Position.       *)
(***************************************************************************)
\* read(state, 0): the character read and the position after the read
read(input, pos) ==
  IF pos >= Len(input) - 1
    THEN [ch |-> eof, pos |-> pos]
    ELSE [ch |-> At(input, pos + 1), pos |-> pos + 1]

unread(start, pos) == IF pos <= start THEN pos ELSE pos - 1

peekBack(input, pos) == IF pos = 0 THEN eof ELSE At(input, pos - 1)

peek(input, pos) == IF pos >= Len(input) - 1 THEN eof ELSE At(input, pos + 1)

isLetter(ch) == ch # eof /\ ch \in LetterSet

isWhitespace(ch) == ch \in {" ", "\t", "\n", "\r"}

isAlphaNumeric(ch) == ch # eof /\ (isLetter(ch) \/ ch \in Digits)

\* unicode.IsDigit on the model's alphabet
IsDigit(ch) == ch \in Digits

isKeyword(word) == Up(word) \in keywords

isString(ch, dialect) ==
  ch = "'" \/ (dialect = DialectMySQL /\ ch = "\"")

\* isQuotedIdentifier with the backtick kept in the MSSQL dialect
isQuotedIdentifierWithBacktick(ch, dialect) ==
  IF dialect = DialectMSSQL THEN ch \in {"\"", Backtick, "["}
  ELSE ch \in {"\"", Backtick}

isQuotedIdentifier(ch, dialect) ==
  IF dialect = DialectMSSQL THEN ch \in {"\"", "["} ELSE ch \in {"\"", Backtick}

\* a token whose value is input[start .. pos]; End is computed from the
\* byte length of the value, as len(value) is in the source
MkToken(type, input, start, pos) ==
  LET value == Slice(input, start, pos + 1)
  IN [tok |-> [Type |-> type, Value |-> value, Start |-> start,
               End |-> start + ByteLen(value) - 1],
      pos |-> pos]

\* reads while the character read satisfies the scanner's loop condition;
\* yields the character that stopped the loop and the position after it
RECURSIVE ReadWhileWhitespace(_, _)
ReadWhileWhitespace(input, pos) ==
  LET r == read(input, pos)
  IN IF isWhitespace(r.ch) THEN ReadWhileWhitespace(input, r.pos) ELSE r

scanWhitespace(input, start, pos) ==
  LET r == ReadWhileWhitespace(input, pos)
      p == IF r.ch # eof THEN unread(start, r.pos) ELSE r.pos
  IN MkToken(TokenWhitespace, input, start, p)

RECURSIVE ReadToLineEnd(_, _)
ReadToLineEnd(input, pos) ==
  LET r == read(input, pos)
  IN IF r.ch = "\n" \/ r.ch = eof THEN r ELSE ReadToLineEnd(input, r.pos)

scanCommentInline(input, start, pos) ==
  MkToken(TokenCommentInline, input, start, ReadToLineEnd(input, pos).pos)

\* prevChar starts as the zero rune, which is neither eof nor '*'
RECURSIVE ReadToBlockEnd(_, _, _)
ReadToBlockEnd(input, pos, prevChar) ==
  LET r == read(input, pos)
  IN IF (prevChar = "*" /\ r.ch = "/") \/ r.ch = eof
       THEN r
       ELSE ReadToBlockEnd(input, r.pos, r.ch)

scanCommentBlock(input, start, pos) ==
  MkToken(TokenCommentBlock, input, start, ReadToBlockEnd(input, pos, "NUL").pos)

RECURSIVE ReadString(_, _, _)
ReadString(input, pos, endToken) ==
  LET r == read(input, pos)
  IN IF r.ch = endToken
       THEN IF peek(input, r.pos) = endToken
              THEN ReadString(input, read(input, r.pos).pos, endToken)
              ELSE r
       ELSE IF r.ch = eof THEN r ELSE ReadString(input, r.pos, endToken)

scanString(input, start, pos, endToken) ==
  LET r == ReadString(input, pos, endToken)
      p == IF r.ch = eof THEN unread(start, r.pos) ELSE r.pos
  IN MkToken(TokenString, input, start, p)

RECURSIVE ReadQuoted(_, _, _)
ReadQuoted(input, pos, endToken) ==
  LET r == read(input, pos)
  IN IF r.ch = endToken \/ r.ch = eof THEN r ELSE ReadQuoted(input, r.pos, endToken)

scanQuotedIdentifier(input, start, pos, endToken) ==
  LET r == ReadQuoted(input, pos, endToken)
      p == IF r.ch = eof THEN unread(start, r.pos) ELSE r.pos
  IN MkToken(TokenKeyword, input, start, p)

RECURSIVE ReadWhileLetter(_, _)
ReadWhileLetter(input, pos) ==
  LET r == read(input, pos)
  IN IF isLetter(r.ch) THEN ReadWhileLetter(input, r.pos) ELSE r

skipWord(input, start, pos) == MkToken(TokenUnknown, input, start, pos)

scanWord(input, start, pos) ==
  LET r == ReadWhileLetter(input, pos)
      p == IF r.ch # eof THEN unread(start, r.pos) ELSE r.pos
  IN IF ~isKeyword(Slice(input, start, p + 1))
       THEN skipWord(input, start, p)
       ELSE MkToken(TokenKeyword, input, start, p)

\* individuals: ";" is the only individually recognised character
resolveIndividualTokenType(value) == value = <<";">>

scanIndividualCharacter(input, start, pos) ==
  MkToken(TokenSemicolon, input, start, pos)

skipChar(input, start, pos) ==
  [tok |-> [Type |-> TokenUnknown, Value |-> Slice(input, start, pos + 1),
            Start |-> start, End |-> start],
   pos |-> pos]

\* length of the run of characters satisfying the word-character test
\* that starts at offset i
RECURSIVE WordRun(_, _)
WordRun(input, i) ==
  IF i < Len(input) /\ isAlphaNumeric(At(input, i)) THEN 1 + WordRun(input, i + 1) ELSE 0

\* the regular expression ^\$\w*\$ applied to input[start:]: the length of
\* the match ($ label $), or 0 when there is none
DollarOpenerLen(input, start) ==
  IF start < Len(input) /\ At(input, start) = "$"
    THEN LET n == WordRun(input, start + 1)
         IN IF start + 1 + n < Len(input) /\ At(input, start + 1 + n) = "$"
              THEN n + 2 ELSE 0
    ELSE 0

isDollarQuotedString(input, start) == DollarOpenerLen(input, start) > 0

RECURSIVE ReadToDollarLabel(_, _, _)
ReadToDollarLabel(input, pos, label) ==
  LET n == Len(label)
  IN IF pos + 1 + n > Len(input)
       THEN IF Len(input) - 1 > pos THEN Len(input) - 1 ELSE pos
       ELSE IF Slice(input, pos + 1, pos + 1 + n) = label
              THEN pos + n
              ELSE ReadToDollarLabel(input, read(input, pos).pos, label)

scanDollarQuotedString(input, start, pos) ==
  LET n     == DollarOpenerLen(input, start)
      label == Slice(input, start, start + n)
  IN MkToken(TokenString, input, start,
             ReadToDollarLabel(input, pos + (n - 1), label))

isParameter(ch, input, pos, paramTypes) ==
  LET nextChar == peek(input, pos)
      prevChar == peekBack(input, pos)
  IN IF ch = eof THEN FALSE
     ELSE IF ch = ":" /\ (prevChar = ":" \/ nextChar = ":") THEN FALSE
     ELSE IF paramTypes.Positional /\ ch = "?" THEN TRUE
     ELSE IF ch \in paramTypes.Numbered /\ nextChar # eof /\ IsDigit(nextChar) THEN TRUE
     ELSE IF ch \in paramTypes.Named THEN TRUE
     ELSE IF ch \in paramTypes.Quoted THEN TRUE
     ELSE FALSE

\* length of the run of letters and digits that starts at offset i
RECURSIVE LetterDigitRun(_, _)
LetterDigitRun(input, i) ==
  IF i < Len(input) /\ (isLetter(At(input, i)) \/ IsDigit(At(input, i)))
    THEN 1 + LetterDigitRun(input, i + 1) ELSE 0

\* the named parameter's loop stopping at the first digit
RECURSIVE ReadWhileNoDigit(_, _)
ReadWhileNoDigit(input, pos) ==
  IF isLetter(peek(input, pos))
    THEN ReadWhileNoDigit(input, read(input, pos).pos) ELSE pos

RECURSIVE ReadWhileAlphaNumeric(_, _)
ReadWhileAlphaNumeric(input, pos) ==
  IF isAlphaNumeric(peek(input, pos))
    THEN ReadWhileAlphaNumeric(input, read(input, pos).pos) ELSE pos

RECURSIVE ReadQuotedParam(_, _, _)
ReadQuotedParam(input, pos, endQuote) ==
  IF (isAlphaNumeric(peek(input, pos)) \/ peek(input, pos) = " ")
     /\ peek(input, pos) # endQuote
    THEN ReadQuotedParam(input, read(input, pos).pos, endQuote) ELSE pos

\* scanParameter with the positional kind tried before the numbered one
scanParameterPositionalFirst(input, start, pos, dialect, paramTypes) ==
  LET curCh  == At(input, start)
      nextCh == peek(input, pos)
      run    == LetterDigitRun(input, start + 1)
      numbered ==
        /\ ~(paramTypes.Positional /\ curCh = "?")
        /\ curCh \in paramTypes.Numbered
        /\ nextCh # eof /\ IsDigit(nextCh)
        /\ run > 0
        /\ \A i \in (start + 1)..(start + run) : IsDigit(At(input, i))
      named ==
        /\ ~numbered
        /\ curCh \in paramTypes.Named
        /\ ~isQuotedIdentifier(nextCh, dialect)
      quoted ==
        /\ ~numbered /\ ~named
        /\ curCh \in paramTypes.Quoted
        /\ isQuotedIdentifier(nextCh, dialect)
      matched == numbered \/ named \/ quoted
      p == IF numbered THEN pos + run
           ELSE IF named THEN ReadWhileAlphaNumeric(input, pos)
           ELSE IF quoted
             THEN LET q == read(input, pos)
                  IN read(input, ReadQuotedParam(input, q.pos, endTokens(q.ch))).pos
           ELSE pos
  IN IF ~matched /\ ~paramTypes.Positional /\ curCh # "?"
       THEN MkToken(TokenUnknown, input, start, p)
       ELSE MkToken(TokenParameter, input, start, p)

scanParameter(input, start, pos, dialect, paramTypes) ==
  LET curCh  == At(input, start)
      nextCh == peek(input, pos)
      run    == LetterDigitRun(input, start + 1)
      numbered ==
        /\ curCh \in paramTypes.Numbered
        /\ nextCh # eof /\ IsDigit(nextCh)
        /\ run > 0
        /\ \A i \in (start + 1)..(start + run) : IsDigit(At(input, i))
      named ==
        /\ ~numbered
        /\ curCh \in paramTypes.Named
        /\ ~isQuotedIdentifier(nextCh, dialect)
      quoted ==
        /\ ~numbered /\ ~named
        /\ curCh \in paramTypes.Quoted
        /\ isQuotedIdentifier(nextCh, dialect)
      matched == numbered \/ named \/ quoted
      p == IF numbered THEN pos + run
           ELSE IF named THEN ReadWhileAlphaNumeric(input, pos)
           ELSE IF quoted
             THEN LET q == read(input, pos)
                  IN read(input, ReadQuotedParam(input, q.pos, endTokens(q.ch))).pos
           ELSE pos
  IN IF ~matched /\ ~paramTypes.Positional /\ curCh # "?"
       THEN MkToken(TokenUnknown, input, start, p)
       ELSE MkToken(TokenParameter, input, start, p)

\* isCommentInline / isCommentBlock: on a match the second character stays
\* consumed, otherwise the read is undone
isCommentInline(ch, input, pos) == ch = "-" /\ read(input, pos).ch = "-"

isCommentBlock(ch, input, pos) == ch = "/" /\ read(input, pos).ch = "*"

\* ScanToken on a fresh state whose Start is start (Position = start - 1)
ScanToken(input, start, dialect, paramTypes) ==
  LET r   == read(input, start - 1)
      ch  == r.ch
      pos == r.pos
  IN IF isWhitespace(ch) THEN scanWhitespace(input, start, pos)
     ELSE IF isCommentInline(ch, input, pos)
       THEN scanCommentInline(input, start, pos + 1)
     ELSE IF isCommentBlock(ch, input, pos)
       THEN scanCommentBlock(input, start, pos + 1)
     ELSE IF isString(ch, dialect) THEN scanString(input, start, pos, endTokens(ch))
     ELSE IF isParameter(ch, input, pos, paramTypes)
       THEN scanParameter(input, start, pos, dialect, paramTypes)
     ELSE IF isDollarQuotedString(input, start)
       THEN scanDollarQuotedString(input, start, pos)
     ELSE IF isQuotedIdentifier(ch, dialect)
       THEN scanQuotedIdentifier(input, start, pos, endTokens(ch))
     ELSE IF isLetter(ch) THEN scanWord(input, start, pos)
     ELSE IF resolveIndividualTokenType(Slice(input, start, pos + 1))
       THEN scanIndividualCharacter(input, start, pos)
     ELSE skipChar(input, start, pos)

\* the first token after offset pos that is not whitespace
RECURSIVE nextNonWhitespaceToken(_, _, _, _)
nextNonWhitespaceToken(input, pos, dialect, paramTypes) ==
  LET s == ScanToken(input, pos + 1, dialect, paramTypes)
  IN IF s.tok.Type # TokenWhitespace
       THEN s.tok
       ELSE nextNonWhitespaceToken(input, s.pos, dialect, paramTypes)

(***************************************************************************)
(* Statement parsers                                                       *)
(***************************************************************************)
NoType  == "nil"
NoError == "nil"

\* a nil *Token
NoToken == [Type |-> "nil", Value |-> <<>>, Start |-> -1, End |-> -1]

ModificationTypes ==
  { "INSERT", "DELETE", "UPDATE", "TRUNCATE",
    "CREATE_DATABASE", "CREATE_SCHEMA", "CREATE_TABLE", "CREATE_VIEW",
    "CREATE_TRIGGER", "CREATE_FUNCTION", "CREATE_INDEX", "CREATE_PROCEDURE",
    "DROP_DATABASE", "DROP_SCHEMA", "DROP_TABLE", "DROP_VIEW",
    "DROP_TRIGGER", "DROP_FUNCTION", "DROP_INDEX", "DROP_PROCEDURE",
    "ALTER_DATABASE", "ALTER_SCHEMA", "ALTER_TABLE", "ALTER_VIEW",
    "ALTER_TRIGGER", "ALTER_FUNCTION", "ALTER_INDEX", "ALTER_PROCEDURE" }

ListingTypes ==
  { "SELECT",
    "SHOW_BINARY", "SHOW_BINLOG", "SHOW_CHARACTER", "SHOW_COLLATION",
    "SHOW_CREATE", "SHOW_ENGINE", "SHOW_ENGINES", "SHOW_ERRORS",
    "SHOW_EVENTS", "SHOW_FUNCTION", "SHOW_GRANTS", "SHOW_MASTER",
    "SHOW_OPEN", "SHOW_PLUGINS", "SHOW_PRIVILEGES", "SHOW_PROCEDURE",
    "SHOW_PROCESSLIST", "SHOW_PROFILE", "SHOW_PROFILES", "SHOW_RELAYLOG",
    "SHOW_REPLICAS", "SHOW_SLAVE", "SHOW_REPLICA", "SHOW_STATUS",
    "SHOW_TRIGGERS", "SHOW_VARIABLES", "SHOW_WARNINGS", "SHOW_DATABASES",
    "SHOW_KEYS", "SHOW_INDEX", "SHOW_TABLE", "SHOW_TABLES", "SHOW_COLUMNS" }

\* the ExecutionTypes map; "nil" stands for a missing key
ExecutionTypes(type) ==
  IF type \in ListingTypes THEN ExecutionListing
  ELSE IF type \in ModificationTypes THEN ExecutionModification
  ELSE IF type = StatementUnknown THEN ExecutionUnknown
  ELSE IF type = StatementAnonBlock THEN ExecutionAnonBlock
  ELSE "nil"

\* the statement types that wait for their blocks to close, less the trigger
statementsWithEndsNoTrigger ==
  { "CREATE_FUNCTION", "CREATE_PROCEDURE", StatementAnonBlock, StatementUnknown }

statementsWithEnds ==
  { "CREATE_TRIGGER", "CREATE_FUNCTION", "CREATE_PROCEDURE",
    StatementAnonBlock, StatementUnknown }

\* the regular expression (?i)^from$|^join$|^into$
preTableKeywords(value) == Up(value) \in {"FROM", "JOIN", "INTO"}

\* a dialect that is no key of the map has no block opener
blockOpeners(dialect) ==
  IF dialect \in {DialectPSQL, DialectMySQL} THEN {"BEGIN", "CASE", "LOOP", "IF"}
  ELSE IF dialect = DialectOracle THEN {"DECLARE", "BEGIN", "CASE"}
  ELSE IF dialect = DialectBigQuery
    THEN {"BEGIN", "CASE", "IF", "LOOP", "REPEAT", "WHILE", "FOR"}
  ELSE IF dialect \in {DialectGeneric, DialectMSSQL, DialectSQLite}
    THEN {"BEGIN", "CASE"}
  ELSE {}

createInitialStatement ==
  [ Start |-> -1, End |-> 0, Type |-> NoType, ExecutionType |-> "nil",
    EndStatement |-> FALSE, CanEnd |-> FALSE,
    Definer |-> -1, Algorithm |-> -1, SQLSecurity |-> -1,
    Parameters |-> <<>>, Tables |-> <<>>, IsCte |-> FALSE ]

\* the object keywords accepted by step 1 of CREATE and DROP
CreateDropAcceptTokens(dialect) ==
  (IF dialect # DialectSQLite THEN <<"DATABASE", "SCHEMA", "PROCEDURE">> ELSE <<>>)
  \o <<"TABLE", "VIEW", "TRIGGER", "FUNCTION", "INDEX">>

\* the object keywords of ALTER with the SQLite exclusions of CREATE and DROP
AlterAcceptTokensAsCreate(dialect) ==
  (IF dialect # DialectSQLite
     THEN <<"DATABASE", "SCHEMA">>
          \o (IF dialect # DialectBigQuery THEN <<"PROCEDURE">> ELSE <<>>)
     ELSE <<>>)
  \o <<"TABLE", "VIEW", "TRIGGER", "FUNCTION", "INDEX">>

AlterAcceptTokens(dialect) ==
  (IF dialect # DialectSQLite
     THEN <<"DATABASE", "SCHEMA", "TRIGGER", "FUNCTION", "INDEX">>
          \o (IF dialect # DialectBigQuery THEN <<"PROCEDURE">> ELSE <<>>)
     ELSE <<>>)
  \o <<"TABLE", "VIEW">>

ShowAcceptTokens ==
  << "DATABASES", "DATABASE", "KEYS", "INDEX", "COLUMNS", "TABLES", "TABLE",
     "BINARY", "BINLOG", "CHARACTER", "COLLATION", "CREATE", "ENGINE",
     "ENGINES", "ERRORS", "EVENTS", "FUNCTION", "GRANTS", "MASTER", "OPEN",
     "PLUGINS", "PRIVILEGES", "PROCEDURE", "PROCESSLIST", "PROFILE",
     "PROFILES", "RELAYLOG", "REPLICAS", "REPLICA", "SLAVE", "STATUS",
     "TRIGGERS", "VARIABLES", "WARNINGS" >>

\* a step: Validation is nil when HasValidation is false; every accepted
\* token has type keyword; PreCanGoToNext is constantly false and
\* PostCanGoToNext constantly true in every step of the source
Step(hasValidation, requireBefore, acceptTokens) ==
  [ HasValidation |-> hasValidation, RequireBefore |-> requireBefore,
    AcceptTokens |-> acceptTokens ]

TwoSteps(verb, acceptTokens) ==
  << Step(TRUE, <<>>, <<verb>>), Step(TRUE, <<TokenWhitespace>>, acceptTokens) >>

\* the step list built by the create...StatementParser function of a kind
Steps(kind, dialect) ==
  IF kind = "CREATE" THEN TwoSteps("CREATE", CreateDropAcceptTokens(dialect))
  ELSE IF kind = "DROP" THEN TwoSteps("DROP", CreateDropAcceptTokens(dialect))
  ELSE IF kind = "ALTER" THEN TwoSteps("ALTER", AlterAcceptTokens(dialect))
  ELSE IF kind = "SHOW" THEN TwoSteps("SHOW", ShowAcceptTokens)
  ELSE IF kind = "UNKNOWN" THEN << Step(FALSE, <<>>, <<>>) >>
  ELSE IF kind = "BLOCK"
    THEN << Step(TRUE, <<>>,
                 (IF dialect = DialectOracle THEN <<"DECLARE">> ELSE <<>>)
                 \o <<"BEGIN">>) >>
  ELSE << Step(TRUE, <<>>, <<kind>>) >>

SetStart(statement, token) ==
  IF statement.Start < 0 THEN [statement EXCEPT !.Start = token.Start] ELSE statement

\* strings.ReplaceAll(value, " ", "_")
ReplaceSpaces(value) == [ i \in DOMAIN value |-> IF value[i] = " " THEN "_" ELSE value[i] ]

\* StepAdd with the object word taken as written, not upper-cased
StepAddAsWritten(kind, stepIndex, statement, token) ==
  IF kind \in {"CREATE", "DROP", "ALTER", "SHOW"}
    THEN IF stepIndex = 0 THEN SetStart(statement, token)
         ELSE [statement EXCEPT !.Type = kind \o "_" \o Str(token.Value)]
  ELSE IF kind = "BLOCK" THEN SetStart(statement, token)
  ELSE IF kind = "UNKNOWN"
    THEN SetStart([statement EXCEPT !.Type = StatementUnknown], token)
  ELSE SetStart([statement EXCEPT !.Type = kind], token)

\* the Add closure of step stepIndex of a parser of the given kind
StepAdd(kind, stepIndex, statement, token) ==
  IF kind \in {"CREATE", "DROP", "ALTER"}
    THEN IF stepIndex = 0 THEN SetStart(statement, token)
         ELSE [statement EXCEPT !.Type = kind \o "_" \o Up(token.Value)]
  ELSE IF kind = "SHOW"
    THEN IF stepIndex = 0 THEN SetStart(statement, token)
         ELSE [statement EXCEPT !.Type = "SHOW_" \o Up(ReplaceSpaces(token.Value))]
  ELSE IF kind = "BLOCK" THEN SetStart(statement, token)
  ELSE IF kind = "UNKNOWN"
    THEN SetStart([statement EXCEPT !.Type = StatementUnknown], token)
  ELSE SetStart([statement EXCEPT !.Type = kind], token)

\* stateMachineStatementParser over the statement and steps of a kind
stateMachineStatementParser(kind) ==
  [ kind |-> kind,
    statement |-> IF kind = "BLOCK"
                    THEN [createInitialStatement EXCEPT !.Type = StatementAnonBlock]
                    ELSE createInitialStatement,
    currentStepIndex |-> 0,
    prevToken |-> NoToken,
    prevNonWhitespaceToken |-> NoToken,
    lastBlockOpener |-> NoToken,
    anonBlockStarted |-> FALSE,
    openBlocks |-> 0 ]

\* a nil StatementParser
NoParser == [stateMachineStatementParser("NONE") EXCEPT !.currentStepIndex = -1]

InvalidStatementParserError(token) ==
  "Invalid statement parser \"" \o Str(token.Value) \o "\""

\* a selection that makes a block of every leading BEGIN and DECLARE,
\* whatever the dialect
ParserKindByTokenAnyDialect(token, nextToken, options) ==
  LET v == Up(token.Value)
      k == IF token.Type # TokenKeyword THEN "NONE"
           ELSE IF v \in {"SELECT", "CREATE", "DROP", "ALTER", "INSERT",
                          "UPDATE", "DELETE", "TRUNCATE"} THEN v
           ELSE IF v = "SHOW" /\ options.Dialect \in {DialectMySQL, DialectGeneric}
             THEN "SHOW"
           ELSE IF v = "BEGIN" /\ Up(nextToken.Value) # "TRANSACTION" THEN "BLOCK"
           ELSE IF v = "DECLARE" THEN "BLOCK"
           ELSE "NONE"
  IN IF k # "NONE" THEN k
     ELSE IF ~options.IsStrict THEN "UNKNOWN"
     ELSE "PANIC"

\* the parser kind chosen for a token, or "PANIC" in strict mode
ParserKindByToken(token, nextToken, options) ==
  LET v == Up(token.Value)
      k == IF token.Type # TokenKeyword THEN "NONE"
           ELSE IF v \in {"SELECT", "CREATE", "DROP", "ALTER", "INSERT",
                          "UPDATE", "DELETE", "TRUNCATE"} THEN v
           ELSE IF v = "SHOW" /\ options.Dialect \in {DialectMySQL, DialectGeneric}
             THEN "SHOW"
           ELSE IF v = "BEGIN" /\ options.Dialect \in {DialectBigQuery, DialectOracle}
                   /\ Up(nextToken.Value) # "TRANSACTION" THEN "BLOCK"
           ELSE IF v = "DECLARE" /\ options.Dialect = DialectOracle THEN "BLOCK"
           ELSE "NONE"
  IN IF k # "NONE" THEN k
     ELSE IF ~options.IsStrict THEN "UNKNOWN"
     ELSE "PANIC"

\* createStatementParserByToken without its strict-mode panic
createStatementParserByTokenLenient(token, nextToken, options) ==
  LET k == ParserKindByToken(token, nextToken, options)
  IN [err |-> NoError,
      p |-> stateMachineStatementParser(IF k = "PANIC" THEN "UNKNOWN" ELSE k)]

createStatementParserByToken(token, nextToken, options) ==
  LET k == ParserKindByToken(token, nextToken, options)
  IN IF k = "PANIC"
       THEN [err |-> InvalidStatementParserError(token), p |-> NoParser]
       ELSE [err |-> NoError, p |-> stateMachineStatementParser(k)]

setPrevToken(p, token) ==
  IF token.Type # TokenWhitespace
    THEN [p EXCEPT !.prevToken = token, !.prevNonWhitespaceToken = token]
    ELSE [p EXCEPT !.prevToken = token]

isValidToken(step, token) ==
  \/ ~step.HasValidation
  \/ \E i \in DOMAIN step.AcceptTokens :
        token.Type = TokenKeyword /\ Up(token.Value) = step.AcceptTokens[i]

\* " or "-joined list of (type="keyword" value="V") for the accepted tokens
RECURSIVE ExpectedTokenStrings(_)
ExpectedTokenStrings(acceptTokens) ==
  IF acceptTokens = <<>> THEN ""
  ELSE "(type=\"keyword\" value=\"" \o acceptTokens[1] \o "\")"
       \o (IF Len(acceptTokens) > 1 THEN " or " ELSE "")
       \o ExpectedTokenStrings(Tail(acceptTokens))

StepIndexString(i) == IF i = 0 THEN "0" ELSE IF i = 1 THEN "1" ELSE "2"

RequireBeforeError(step, token, stepIndex) ==
  "Expected any of these tokens " \o step.RequireBefore[1] \o " before \""
  \o Str(token.Value) \o "\" (currentStep=" \o StepIndexString(stepIndex) \o ")."

ValidationError(step, token, stepIndex) ==
  "Expected any of these tokens " \o ExpectedTokenStrings(step.AcceptTokens)
  \o " instead of type=\"" \o token.Type \o "\" value=\"" \o Str(token.Value)
  \o "\" (currentStep=" \o StepIndexString(stepIndex) \o ")."

AlreadyEndedError == "This statement has already got to the end."

Contains(seq, e) == \E i \in DOMAIN seq : seq[i] = e

\* the block-opener section without the Oracle rule that the BEGIN after a
\* DECLARE belongs to the block the DECLARE opened
AddTokenBlockOpenerEach(p, token, nextToken, options) ==
  LET upperVal      == Up(token.Value)
      isBlockOpener == upperVal \in blockOpeners(options.Dialect)
      prevNotEnd    == \/ p.prevNonWhitespaceToken = NoToken
                       \/ Up(p.prevNonWhitespaceToken.Value) # "END"
      canOpenBlock  == upperVal # "BEGIN" \/ Up(nextToken.Value) # "TRANSACTION"
  IN IF token.Type = TokenKeyword /\ isBlockOpener /\ prevNotEnd /\ canOpenBlock
       THEN LET q == [setPrevToken(p, token) EXCEPT
                        !.openBlocks = p.openBlocks + 1,
                        !.lastBlockOpener = token]
            IN IF q.statement.Type = StatementAnonBlock /\ ~q.anonBlockStarted
                 THEN [p |-> [q EXCEPT !.anonBlockStarted = TRUE], return |-> FALSE]
                 ELSE [p |-> q, return |-> q.statement.Type # NoType]
       ELSE [p |-> p, return |-> FALSE]

\* the block-opener section of AddToken: the parser after it and whether
\* AddToken returns there
AddTokenBlockOpener(p, token, nextToken, options) ==
  LET upperVal      == Up(token.Value)
      nextUpper     == Up(nextToken.Value)
      isBlockOpener == upperVal \in blockOpeners(options.Dialect)
      prevNotEnd    == \/ p.prevNonWhitespaceToken = NoToken
                       \/ Up(p.prevNonWhitespaceToken.Value) # "END"
      canOpenBlock  ==
        IF upperVal # "BEGIN" THEN TRUE
        ELSE IF nextUpper # "TRANSACTION"
          THEN IF options.Dialect # DialectSQLite THEN TRUE
               ELSE ~(nextUpper \in {"DEFERRED", "IMMEDIATE", "EXCLUSIVE"})
          ELSE FALSE
  IN IF token.Type = TokenKeyword /\ isBlockOpener /\ prevNotEnd /\ canOpenBlock
       THEN IF /\ options.Dialect = DialectOracle
               /\ p.lastBlockOpener # NoToken
               /\ Str(p.lastBlockOpener.Value) = "DECLARE"
               /\ upperVal = "BEGIN"
              THEN [p |-> [setPrevToken(p, token) EXCEPT !.lastBlockOpener = token],
                    return |-> TRUE]
              ELSE LET q == [setPrevToken(p, token) EXCEPT
                               !.openBlocks = p.openBlocks + 1,
                               !.lastBlockOpener = token]
                   IN IF q.statement.Type = StatementAnonBlock /\ ~q.anonBlockStarted
                        THEN [p |-> [q EXCEPT !.anonBlockStarted = TRUE], return |-> FALSE]
                        ELSE [p |-> q, return |-> q.statement.Type # NoType]
       ELSE [p |-> p, return |-> FALSE]

\* the capture with the tables of a statement that follows a WITH header
\* taken as well
AddTokenCaptureAfterHeader(p, token, nextToken, options) ==
  LET st == p.statement
      tables ==
        IF /\ options.IdentifyTables
           /\ preTableKeywords(token.Value)
           /\ st.Type \in {StatementSelect, StatementInsert}
           /\ ~Contains(st.Tables, nextToken.Value)
          THEN Append(st.Tables, nextToken.Value)
          ELSE st.Tables
      parameters ==
        IF /\ token.Type = TokenParameter
           /\ (token.Value = <<"?">> \/ ~Contains(st.Parameters, token.Value))
          THEN Append(st.Parameters, token.Value)
          ELSE st.Parameters
  IN [p EXCEPT !.statement.Tables = tables, !.statement.Parameters = parameters]

\* table and parameter capture of AddToken
AddTokenCapture(p, token, nextToken, options) ==
  LET st == p.statement
      tables ==
        IF /\ options.IdentifyTables
           /\ preTableKeywords(token.Value)
           /\ ~st.IsCte
           /\ st.Type \in {StatementSelect, StatementInsert}
           /\ ~Contains(st.Tables, nextToken.Value)
          THEN Append(st.Tables, nextToken.Value)
          ELSE st.Tables
      parameters ==
        IF /\ token.Type = TokenParameter
           /\ (token.Value = <<"?">> \/ ~Contains(st.Parameters, token.Value))
          THEN Append(st.Parameters, token.Value)
          ELSE st.Parameters
  IN [p EXCEPT !.statement.Tables = tables, !.statement.Parameters = parameters]

\* the modifier-skipping section of AddToken (reached only while the type or
\* the start is unset): the parser after it and whether AddToken returns there
AddTokenModifiers(p, token, options) ==
  LET d          == options.Dialect
      upperValue == Up(token.Value)
      isEq       == token.Value = <<"=">>
      prevIsWs   == p.prevToken # NoToken /\ p.prevToken.Type = TokenWhitespace
      prevNotWs  == p.prevToken # NoToken /\ p.prevToken.Type # TokenWhitespace
      prevIsOr   == /\ p.prevNonWhitespaceToken # NoToken
                    /\ Up(p.prevNonWhitespaceToken.Value) = "OR"
      isAlterOrReplace ==
        IF d = DialectMSSQL THEN upperValue = "ALTER" ELSE upperValue = "REPLACE"
      skip(q) == [p |-> setPrevToken(q, token), return |-> TRUE]
      \* from the SQL SECURITY section on
      sqlSecurity(q) ==
        IF d = DialectMySQL /\ upperValue = "SQL"
          THEN skip([q EXCEPT !.statement.SQLSecurity = 0])
        ELSE IF q.statement.SQLSecurity # -1
          THEN IF \/ (q.statement.SQLSecurity = 0 /\ upperValue = "SECURITY")
                  \/ (q.statement.SQLSecurity = 1 /\ upperValue \in {"DEFINER", "INVOKER"})
                 THEN skip([q EXCEPT !.statement.SQLSecurity = q.statement.SQLSecurity + 1])
               ELSE IF q.statement.SQLSecurity = 2
                 THEN [p |-> [q EXCEPT !.statement.SQLSecurity = -1], return |-> FALSE]
               ELSE [p |-> q, return |-> FALSE]
        ELSE [p |-> q, return |-> FALSE]
      \* from the ALGORITHM section on
      algorithm(q) ==
        IF d = DialectMySQL /\ upperValue = "ALGORITHM"
          THEN skip([q EXCEPT !.statement.Algorithm = 0])
        ELSE IF q.statement.Algorithm = 0 /\ isEq
          THEN skip([q EXCEPT !.statement.Algorithm = 1])
        ELSE IF q.statement.Algorithm > 0
          THEN IF q.statement.Algorithm = 1 /\ prevIsWs
                 THEN skip([q EXCEPT !.statement.Algorithm = 2])
               ELSE IF /\ q.statement.Algorithm > 1
                       /\ q.prevToken # NoToken
                       /\ Up(q.prevToken.Value) \in {"UNDEFINED", "MERGE", "TEMPTABLE"}
                 THEN skip(q)
               ELSE sqlSecurity([q EXCEPT !.statement.Algorithm = -1])
        ELSE sqlSecurity(q)
      \* from the DEFINER section on
      definer(q) ==
        IF d = DialectMySQL /\ upperValue = "DEFINER"
          THEN skip([q EXCEPT !.statement.Definer = 0])
        ELSE IF q.statement.Definer = 0 /\ isEq
          THEN skip([q EXCEPT !.statement.Definer = 1])
        ELSE IF q.statement.Definer > 0
          THEN IF q.statement.Definer = 1 /\ prevIsWs
                 THEN skip([q EXCEPT !.statement.Definer = 2])
               ELSE IF q.statement.Definer > 1 /\ prevNotWs
                 THEN skip(q)
               ELSE algorithm([q EXCEPT !.statement.Definer = -1])
        ELSE algorithm(q)
  IN IF \/ upperValue = "UNIQUE"
        \/ (d = DialectMySQL /\ upperValue \in {"FULLTEXT", "SPATIAL"})
        \/ (d = DialectMSSQL /\ upperValue \in {"CLUSTERED", "NONCLUSTERED"})
       THEN skip(p)
     ELSE IF d \in {DialectPSQL, DialectMSSQL, DialectBigQuery} /\ upperValue = "MATERIALIZED"
       THEN skip(p)
     ELSE IF d # DialectSQLite /\ (upperValue = "OR" \/ (prevIsOr /\ isAlterOrReplace))
       THEN skip(p)
     ELSE IF \/ (d = DialectPSQL /\ upperValue \in {"TEMP", "TEMPORARY"})
             \/ (d = DialectSQLite /\ upperValue \in {"TEMP", "TEMPORARY", "VIRTUAL"})
       THEN skip(p)
     ELSE definer(p)

\* the step section of AddToken: validation, the step's Add, the execution
\* type and the advance of the step index
AddTokenStep(p, token, options) ==
  LET currentStep == Steps(p.kind, options.Dialect)[p.currentStepIndex + 1]
  IN IF /\ p.prevToken # NoToken
        /\ currentStep.HasValidation
        /\ Len(currentStep.RequireBefore) > 0
        /\ ~Contains(currentStep.RequireBefore, p.prevToken.Type)
       THEN [err |-> RequireBeforeError(currentStep, token, p.currentStepIndex), p |-> p]
     ELSE IF ~isValidToken(currentStep, token) /\ options.IsStrict
       THEN [err |-> ValidationError(currentStep, token, p.currentStepIndex), p |-> p]
     ELSE LET st   == StepAdd(p.kind, p.currentStepIndex, p.statement, token)
              exec == IF st.Type # NoType /\ ExecutionTypes(st.Type) # "nil"
                        THEN ExecutionTypes(st.Type)
                        ELSE ExecutionUnknown
              q    == [p EXCEPT !.statement = [st EXCEPT !.ExecutionType = exec],
                                !.currentStepIndex = p.currentStepIndex + 1]
          IN [err |-> NoError, p |-> setPrevToken(q, token)]

\* stateMachineParser.AddToken: the error raised ("nil" when none) and the
\* parser after the call
\* AddToken with a body that is still validated in strict mode: an END met
\* there with no block open is an error
AddTokenBodyChecked(p, token, nextToken, options) ==
  LET st == p.statement
      statementTypeEnds == st.Type # NoType /\ st.Type \in statementsWithEnds
      ok(q) == [err |-> NoError, p |-> q]
  IN IF st.EndStatement THEN [err |-> AlreadyEndedError, p |-> p]
     ELSE IF /\ token.Type = TokenSemicolon
             /\ \/ ~statementTypeEnds
                \/ (p.openBlocks = 0 /\ (st.Type = StatementUnknown \/ st.CanEnd))
       THEN ok([p EXCEPT !.statement.EndStatement = TRUE])
     ELSE IF p.openBlocks > 0 /\ Up(token.Value) = "END"
       THEN ok(setPrevToken([p EXCEPT !.openBlocks = p.openBlocks - 1,
                                      !.statement.CanEnd =
                                         (p.openBlocks - 1 = 0) \/ st.CanEnd],
                            token))
     ELSE IF token.Type = TokenWhitespace THEN ok(setPrevToken(p, token))
     ELSE LET b == AddTokenBlockOpener(p, token, nextToken, options)
          IN IF b.return THEN ok(b.p)
             ELSE LET c == AddTokenCapture(b.p, token, nextToken, options)
                  IN IF c.statement.Type # NoType /\ c.statement.Start >= 0
                       THEN IF options.IsStrict /\ Up(token.Value) = "END"
                              THEN [err |-> "Unexpected END", p |-> p]
                              ELSE ok(setPrevToken(c, token))
                       ELSE LET m == AddTokenModifiers(c, token, options)
                            IN IF m.return THEN ok(m.p)
                               ELSE AddTokenStep(m.p, token, options)

\* AddToken with an END that closes a block whether or not one is open
AddTokenEndAlways(p, token, nextToken, options) ==
  LET st == p.statement
      statementTypeEnds == st.Type # NoType /\ st.Type \in statementsWithEnds
      ok(q) == [err |-> NoError, p |-> q]
  IN IF st.EndStatement THEN [err |-> AlreadyEndedError, p |-> p]
     ELSE IF /\ token.Type = TokenSemicolon
             /\ \/ ~statementTypeEnds
                \/ (p.openBlocks = 0 /\ (st.Type = StatementUnknown \/ st.CanEnd))
       THEN ok([p EXCEPT !.statement.EndStatement = TRUE])
     ELSE IF Up(token.Value) = "END"
       THEN ok(setPrevToken([p EXCEPT !.openBlocks = p.openBlocks - 1,
                                      !.statement.CanEnd =
                                         (p.openBlocks - 1 = 0) \/ st.CanEnd],
                            token))
     ELSE IF token.Type = TokenWhitespace THEN ok(setPrevToken(p, token))
     ELSE LET b == AddTokenBlockOpener(p, token, nextToken, options)
          IN IF b.return THEN ok(b.p)
             ELSE LET c == AddTokenCapture(b.p, token, nextToken, options)
                  IN IF c.statement.Type # NoType /\ c.statement.Start >= 0
                       THEN ok(setPrevToken(c, token))
                       ELSE LET m == AddTokenModifiers(c, token, options)
                            IN IF m.return THEN ok(m.p)
                               ELSE AddTokenStep(m.p, token, options)

AddToken(p, token, nextToken, options) ==
  LET st == p.statement
      statementTypeEnds == st.Type # NoType /\ st.Type \in statementsWithEnds
      ok(q) == [err |-> NoError, p |-> q]
  IN IF st.EndStatement THEN [err |-> AlreadyEndedError, p |-> p]
     ELSE IF /\ token.Type = TokenSemicolon
             /\ \/ ~statementTypeEnds
                \/ (p.openBlocks = 0 /\ (st.Type = StatementUnknown \/ st.CanEnd))
       THEN ok([p EXCEPT !.statement.EndStatement = TRUE])
     ELSE IF p.openBlocks > 0 /\ Up(token.Value) = "END"
       THEN ok(setPrevToken([p EXCEPT !.openBlocks = p.openBlocks - 1,
                                      !.statement.CanEnd =
                                         (p.openBlocks - 1 = 0) \/ st.CanEnd],
                            token))
     ELSE IF token.Type = TokenWhitespace THEN ok(setPrevToken(p, token))
     ELSE LET b == AddTokenBlockOpener(p, token, nextToken, options)
          IN IF b.return THEN ok(b.p)
             ELSE LET c == AddTokenCapture(b.p, token, nextToken, options)
                  IN IF c.statement.Type # NoType /\ c.statement.Start >= 0
                       THEN ok(setPrevToken(c, token))
                       ELSE LET m == AddTokenModifiers(c, token, options)
                            IN IF m.return THEN ok(m.p)
                               ELSE AddTokenStep(m.p, token, options)

\* Statement.ToConcrete
ToConcrete(s) ==
  [ Start |-> s.Start, End |-> s.End,
    Type |-> IF s.Type # NoType THEN s.Type ELSE StatementUnknown,
    ExecutionType |-> IF s.ExecutionType # "nil" THEN s.ExecutionType ELSE ExecutionUnknown,
    Parameters |-> s.Parameters, Tables |-> s.Tables, IsCte |-> s.IsCte ]

\* DefaultParamTypesFor; Custom is empty for every dialect
ParamTypes(positional, numbered, named, quoted) ==
  [ Positional |-> positional, Numbered |-> numbered,
    Named |-> named, Quoted |-> quoted ]

DefaultParamTypesFor(dialect) ==
  IF dialect = DialectPSQL THEN ParamTypes(FALSE, {"$"}, {}, {})
  ELSE IF dialect = DialectMSSQL THEN ParamTypes(FALSE, {}, {":"}, {})
  ELSE IF dialect = DialectBigQuery THEN ParamTypes(TRUE, {}, {"@"}, {"@"})
  ELSE IF dialect = DialectSQLite THEN ParamTypes(TRUE, {"?"}, {":", "@"}, {})
  ELSE ParamTypes(TRUE, {}, {}, {})

(***************************************************************************)
(* Bytes and string order, for the text slice and the parameter sort of    *)
(* Identify                                                                *)
(***************************************************************************)
\* the printable ASCII characters in code order, from code 32 on
AsciiPrintable ==
  << " ", "!", "\"", "#", "$", "%", "&", "'", "(", ")", "*", "+", ",", "-",
     ".", "/", "0", "1", "2", "3", "4", "5", "6", "7", "8", "9", ":", ";",
     "<", "=", ">", "?", "@", "A", "B", "C", "D", "E", "F", "G", "H", "I",
     "J", "K", "L", "M", "N", "O", "P", "Q", "R", "S", "T", "U", "V", "W",
     "X", "Y", "Z", "[", "\\", "]", "^", "_", Backtick, "a", "b", "c", "d",
     "e", "f", "g", "h", "i", "j", "k", "l", "m", "n", "o", "p", "q", "r",
     "s", "t", "u", "v", "w", "x", "y", "z", "{", "|", "}", "~" >>

\* the UTF-8 encoding of a character, as a sequence of byte values
BytesOfChar(ch) ==
  IF ch = NonAscii THEN <<195, 169>>
  ELSE IF ch = "É" THEN <<195, 137>>
  ELSE IF ch = "\t" THEN <<9>>
  ELSE IF ch = "\n" THEN <<10>>
  ELSE IF ch = "\r" THEN <<13>>
  ELSE << 31 + (CHOOSE i \in DOMAIN AsciiPrintable : AsciiPrintable[i] = ch) >>

RECURSIVE Bytes(_)
Bytes(s) == IF s = <<>> THEN <<>> ELSE BytesOfChar(s[1]) \o Bytes(Tail(s))

\* a < b for Go strings (byte-wise lexicographic order)
RECURSIVE BytesLess(_, _)
BytesLess(a, b) ==
  IF b = <<>> THEN FALSE
  ELSE IF a = <<>> THEN TRUE
  ELSE IF a[1] # b[1] THEN a[1] < b[1]
  ELSE BytesLess(Tail(a), Tail(b))

StringLess(a, b) == BytesLess(Bytes(a), Bytes(b))

\* sort.Strings: the ascending arrangement of the strings of seq
RECURSIVE InsertSorted(_, _)
InsertSorted(sorted, e) ==
  IF sorted = <<>> THEN <<e>>
  ELSE IF StringLess(e, sorted[1]) THEN <<e>> \o sorted
  ELSE <<sorted[1]>> \o InsertSorted(Tail(sorted), e)

RECURSIVE SortStrings(_)
SortStrings(seq) ==
  IF seq = <<>> THEN <<>>
  ELSE InsertSorted(SortStrings(SubSeq(seq, 1, Len(seq) - 1)), seq[Len(seq)])

Min(a, b) == IF a < b THEN a ELSE b

(***************************************************************************)
(* Inputs of the model                                                     *)
(***************************************************************************)
\* the largest number of pieces an input is made of
MaxPieces == 3

RECURSIVE Concats(_, _)
Concats(pieces, n) ==
  IF n = 0 THEN { <<>> }
  ELSE LET shorter == Concats(pieces, n - 1)
       IN shorter \cup { s \o q : s \in shorter, q \in pieces }

Pieces ==
  { <<"S","E","L","E","C","T">>,
    <<"C","R","E","A","T","E">>,
    <<"T","A","B","L","E">>,
    <<"O","R">>,
    <<"x">>,
    <<" ">>,
    <<";">>,
    <<"(">>,
    <<",">>,
    <<"'", NonAscii, "'">>,
    <<"B","E","G","I","N">>,
    <<"W","I","T","H"," ","a"," ","A","S"," ","(",")">> }

\* a dialect name outside DIALECTS
InvalidDialect == "nosql"

ModelDialects == { DialectOracle, InvalidDialect }

(***************************************************************************)
(* State                                                                   *)
(***************************************************************************)
VARIABLES
  query,            \* Identify's query argument
  options,          \* Identify's options argument, Strict and Dialect resolved
  pc,               \* "Identify", "Parse", "Parsed" or "Done"
  paramTypes,       \* the ParamTypes handed to Parse
  position,         \* prevState.Position of Parse
  statementParser,  \* the active statement parser, or NoParser
  cte,              \* the cteState of Parse
  tokens,           \* topLevelResult.Tokens
  body,             \* topLevelResult.Body
  results,          \* Identify's results
  err               \* Identify's error, "nil" when none

vars ==
  << query, options, pc, paramTypes, position, statementParser, cte,
     tokens, body, results, err >>

NilResults == [IsNil |-> TRUE, Items |-> <<>>]

InitialCte ==
  [ isCte |-> FALSE, asSeen |-> FALSE, statementEnd |-> FALSE, parens |-> 0,
    stateStart |-> 0, params |-> <<>> ]

InitWith(queries, dialects, stricts) ==
  /\ query \in queries
  /\ options \in [ Strict : stricts, Dialect : dialects,
                   IdentifyTables : {FALSE}, ParamTypesNil : {TRUE},
                   ParamTypes : {DefaultParamTypesFor(DialectGeneric)} ]
  /\ pc = "Identify"
  /\ paramTypes = DefaultParamTypesFor(DialectGeneric)
  /\ position = -1
  /\ statementParser = NoParser
  /\ cte = InitialCte
  /\ tokens = <<>>
  /\ body = <<>>
  /\ results = NilResults
  /\ err = NoError

Init == InitWith(Concats(Pieces, MaxPieces), ModelDialects, BOOLEAN)

(***************************************************************************)
(* Identify, up to the call of Parse                                       *)
(***************************************************************************)
InvalidDialectError ==
  "Unknown dialect. Allowed values: [mssql sqlite mysql oracle psql bigquery generic]"

\* Identify without its dialect check: the query is parsed all the same
IdentifyInvalidDialectIgnored ==
  /\ pc = "Identify"
  /\ options.Dialect \notin DIALECTS
  /\ pc' = "Parse"
  /\ UNCHANGED << query, options, paramTypes, position, statementParser, cte,
                  tokens, body, results, err >>

IdentifyInvalidDialect ==
  /\ pc = "Identify"
  /\ options.Dialect \notin DIALECTS
  /\ pc' = "Done"
  /\ results' = NilResults
  /\ err' = InvalidDialectError
  /\ UNCHANGED << query, options, paramTypes, position, statementParser, cte,
                  tokens, body >>

IdentifyCallParse ==
  /\ pc = "Identify"
  /\ options.Dialect \in DIALECTS
  /\ pc' = "Parse"
  /\ paramTypes' = IF options.ParamTypesNil
                     THEN DefaultParamTypesFor(options.Dialect)
                     ELSE options.ParamTypes
  /\ UNCHANGED << query, options, position, statementParser, cte, tokens,
                  body, results, err >>

(***************************************************************************)
(* Parse: one action per branch of the loop body                           *)
(***************************************************************************)
\* the blank tokens without the semicolon
ignoreOutsideBlankButSemicolon ==
  { TokenWhitespace, TokenCommentInline, TokenCommentBlock }

ignoreOutsideBlankTokens ==
  { TokenWhitespace, TokenCommentInline, TokenCommentBlock, TokenSemicolon }

\* topLevelState.End
TopEnd == Len(query) - 1

\* the scan of the token after prevState, and the lookahead token
Scan == ScanToken(query, position + 1, options.Dialect, paramTypes)

NextToken(scan) ==
  nextNonWhitespaceToken(query, scan.pos, options.Dialect, paramTypes)

ParseOptions ==
  [ IsStrict |-> options.Strict, Dialect |-> options.Dialect,
    IdentifyTables |-> options.IdentifyTables, ParamTypes |-> paramTypes ]

InLoop == pc = "Parse" /\ position < TopEnd

\* a panic raised inside Parse, recovered by Identify
Panic(message) ==
  /\ pc' = "Done"
  /\ results' = NilResults
  /\ err' = message
  /\ UNCHANGED << query, options, paramTypes, position, statementParser, cte,
                  tokens, body >>

\* the loop body's common tail: the token is recorded and consumed
\* the token is recorded and the position is left where it was
ConsumeInPlace(scan) ==
  /\ tokens' = Append(tokens, scan.tok)
  /\ position' = position

Consume(scan) ==
  /\ tokens' = Append(tokens, scan.tok)
  /\ position' = scan.pos

ParseSkipBlank ==
  /\ InLoop /\ statementParser = NoParser
  /\ ~cte.isCte
  /\ LET scan == Scan
     IN /\ scan.tok.Type \in ignoreOutsideBlankTokens
        /\ Consume(scan)
  /\ UNCHANGED << query, options, pc, paramTypes, statementParser, cte, body,
                  results, err >>

IsWith(token) == token.Type = TokenKeyword /\ Up(token.Value) = "WITH"

ParseCteBegin ==
  /\ InLoop /\ statementParser = NoParser
  /\ ~cte.isCte
  /\ LET scan == Scan
     IN /\ scan.tok.Type \notin ignoreOutsideBlankTokens
        /\ IsWith(scan.tok)
        /\ Consume(scan)
        /\ cte' = [cte EXCEPT !.isCte = TRUE, !.stateStart = scan.tok.Start]
  /\ UNCHANGED << query, options, pc, paramTypes, statementParser, body,
                  results, err >>

ParseCtePrematureEnd ==
  /\ InLoop /\ statementParser = NoParser
  /\ cte.isCte
  /\ LET scan == Scan
     IN /\ scan.tok.Type = TokenSemicolon
        /\ Consume(scan)
        /\ body' = Append(body,
             [ Start |-> cte.stateStart, End |-> scan.tok.End,
               Type |-> StatementUnknown, ExecutionType |-> ExecutionUnknown,
               Parameters |-> <<>>, Tables |-> <<>>, IsCte |-> FALSE ])
  /\ cte' = [cte EXCEPT !.isCte = FALSE, !.asSeen = FALSE,
                        !.statementEnd = FALSE, !.parens = 0]
  /\ UNCHANGED << query, options, pc, paramTypes, statementParser, results, err >>

\* CTE tracking without the parenthesis depth: the first closing
\* parenthesis after AS ends the definition
CteTrackedFlat(token) ==
  IF cte.asSeen
    THEN IF token.Value = <<")">> THEN [cte EXCEPT !.statementEnd = TRUE]
         ELSE cte
    ELSE IF Up(token.Value) = "AS" THEN [cte EXCEPT !.asSeen = TRUE]
         ELSE cte

\* the parenthesis and AS tracking of a CTE header
CteTracked(token) ==
  IF cte.asSeen
    THEN IF token.Value = <<"(">> THEN [cte EXCEPT !.parens = cte.parens + 1]
         ELSE IF token.Value = <<")">>
           THEN [cte EXCEPT !.parens = cte.parens - 1,
                            !.statementEnd = (cte.parens - 1 = 0) \/ cte.statementEnd]
         ELSE cte
    ELSE IF Up(token.Value) = "AS" THEN [cte EXCEPT !.asSeen = TRUE]
         ELSE cte

\* parameters met while the CTE flag is up are kept in cte.params
ParseCteTrack ==
  /\ InLoop /\ statementParser = NoParser
  /\ cte.isCte /\ ~cte.statementEnd
  /\ LET scan == Scan
     IN /\ scan.tok.Type # TokenSemicolon
        /\ Consume(scan)
        /\ cte' = IF scan.tok.Type = TokenParameter
                    THEN [CteTracked(scan.tok) EXCEPT
                            !.params = Append(cte.params, scan.tok.Value)]
                    ELSE CteTracked(scan.tok)
  /\ UNCHANGED << query, options, pc, paramTypes, statementParser, body,
                  results, err >>

ParseCteNext ==
  /\ InLoop /\ statementParser = NoParser
  /\ cte.isCte /\ cte.statementEnd
  /\ LET scan == Scan
     IN /\ scan.tok.Type # TokenSemicolon
        /\ scan.tok.Value = <<",">>
        /\ Consume(scan)
        /\ cte' = [cte EXCEPT !.asSeen = FALSE, !.statementEnd = FALSE,
                              !.params = IF scan.tok.Type = TokenParameter
                                           THEN Append(@, scan.tok.Value)
                                           ELSE @]
  /\ UNCHANGED << query, options, pc, paramTypes, statementParser, body,
                  results, err >>

ParseCteBlank ==
  /\ InLoop /\ statementParser = NoParser
  /\ cte.isCte /\ cte.statementEnd
  /\ LET scan == Scan
     IN /\ scan.tok.Type # TokenSemicolon
        /\ scan.tok.Value # <<",">>
        /\ scan.tok.Type \in ignoreOutsideBlankTokens
        /\ Consume(scan)
  /\ UNCHANGED << query, options, pc, paramTypes, statementParser, cte, body,
                  results, err >>

\* the condition of the last branch, in which no token is consumed and a
\* statement parser is installed for the token
StartsStatement(token) ==
  /\ statementParser = NoParser
  /\ token.Type \notin ignoreOutsideBlankTokens
  /\ IF cte.isCte THEN cte.statementEnd /\ token.Value # <<",">>
                  ELSE ~IsWith(token)

ParseCreateParser ==
  /\ InLoop
  /\ LET scan == Scan
         r    == createStatementParserByToken(scan.tok, NextToken(scan), ParseOptions)
     IN /\ StartsStatement(scan.tok)
        /\ IF r.err # NoError THEN Panic(r.err)
           ELSE /\ statementParser' =
                     IF cte.isCte
                       THEN [r.p EXCEPT !.statement.Start = cte.stateStart,
                                        !.statement.IsCte = TRUE,
                                        !.statement.Parameters =
                                           r.p.statement.Parameters \o cte.params]
                       ELSE r.p
                /\ cte' = IF cte.isCte
                            THEN [cte EXCEPT !.params = <<>>, !.isCte = FALSE,
                                             !.asSeen = FALSE, !.statementEnd = FALSE]
                            ELSE cte
                /\ UNCHANGED << query, options, pc, paramTypes, position, tokens,
                                body, results, err >>

\* the step of the loop without the reset of the parser after the end of
\* its statement
ParseAddTokenKeepsParser ==
  /\ InLoop /\ statementParser # NoParser
  /\ LET scan == Scan
         r    == AddToken(statementParser, scan.tok, NextToken(scan), ParseOptions)
     IN IF r.err # NoError THEN Panic(r.err)
        ELSE /\ Consume(scan)
             /\ body' = IF r.p.statement.EndStatement
                          THEN Append(body,
                                 ToConcrete([r.p.statement EXCEPT !.End = scan.tok.End]))
                          ELSE body
             /\ statementParser' = r.p
             /\ UNCHANGED << query, options, pc, paramTypes, cte, results, err >>

ParseAddToken ==
  /\ InLoop /\ statementParser # NoParser
  /\ LET scan == Scan
         r    == AddToken(statementParser, scan.tok, NextToken(scan), ParseOptions)
     IN IF r.err # NoError THEN Panic(r.err)
        ELSE /\ Consume(scan)
             /\ IF r.p.statement.EndStatement
                  THEN /\ body' = Append(body,
                              ToConcrete([r.p.statement EXCEPT !.End = scan.tok.End]))
                       /\ statementParser' = NoParser
                  ELSE /\ body' = body
                       /\ statementParser' = r.p
             /\ UNCHANGED << query, options, pc, paramTypes, cte, results, err >>

\* Parse returning without its last-statement step
ParseReturnWithoutLast ==
  /\ pc = "Parse" /\ position >= TopEnd
  /\ pc' = "Parsed"
  /\ UNCHANGED << query, options, paramTypes, position, statementParser, cte,
                  tokens, body, results, err >>

\* after the loop: the last statement without ending key
ParseReturn ==
  /\ pc = "Parse" /\ position >= TopEnd
  /\ pc' = "Parsed"
  /\ body' = IF statementParser # NoParser /\ ~statementParser.statement.EndStatement
               THEN Append(body,
                      ToConcrete([statementParser.statement EXCEPT !.End = TopEnd]))
               ELSE body
  /\ UNCHANGED << query, options, paramTypes, position, statementParser, cte,
                  tokens, results, err >>

(***************************************************************************)
(* Identify, after Parse returned                                          *)
(***************************************************************************)
SliceBoundsError == "runtime error: slice bounds out of range [-1:]"

\* sorting for every psql call, with or without ParamTypes in the options
sortParamsOfDialect == options.Dialect = DialectPSQL

sortParams == options.Dialect = DialectPSQL /\ options.ParamTypesNil

IdentifyResult(statement) ==
  [ Start |-> statement.Start,
    End |-> statement.End,
    Text |-> Slice(Bytes(query), statement.Start,
                   Min(statement.End + 1, Len(Bytes(query)))),
    Type |-> statement.Type,
    ExecutionType |-> statement.ExecutionType,
    Parameters |-> IF sortParams THEN SortStrings(statement.Parameters)
                   ELSE statement.Parameters,
    Tables |-> statement.Tables ]

\* the loop over result.Body: the first statement whose text slice is out
\* of range makes the call fail.  sort.Strings sorts in place the slice that
\* the statement of result.Body holds, so the statements the loop has
\* reached have their parameters sorted in the body as well
IdentifyReturn ==
  /\ pc = "Parsed"
  /\ pc' = "Done"
  /\ IF \E i \in DOMAIN body : body[i].Start < 0
       THEN /\ results' = NilResults
            /\ err' = SliceBoundsError
       ELSE /\ results' = [ IsNil |-> FALSE,
                            Items |-> [ i \in DOMAIN body |-> IdentifyResult(body[i]) ] ]
            /\ err' = NoError
  /\ body' = [ i \in DOMAIN body |->
                 IF sortParams /\ \A j \in 1..(i - 1) : body[j].Start >= 0
                   THEN [body[i] EXCEPT !.Parameters = SortStrings(@)]
                   ELSE body[i] ]
  /\ UNCHANGED << query, options, paramTypes, position, statementParser, cte,
                  tokens >>

Next ==
  \/ IdentifyInvalidDialect
  \/ IdentifyCallParse
  \/ ParseSkipBlank
  \/ ParseCteBegin
  \/ ParseCtePrematureEnd
  \/ ParseCteTrack
  \/ ParseCteNext
  \/ ParseCteBlank
  \/ ParseCreateParser
  \/ ParseAddToken
  \/ ParseReturn
  \/ IdentifyReturn

Spec == Init /\ [][Next]_vars

(***************************************************************************)
(* A second specification: the same actions over inputs that are chosen     *)
(* per subject (literals and comments, blank input, parameters, WITH        *)
(* headers, Oracle blocks, letter case), each input with the dialects it is *)
(* run under.                                                               *)
(***************************************************************************)
\* a ParamTypes value passed explicitly in the options
ExplicitParamTypes == ParamTypes(TRUE, {"$"}, {":"}, {})

Cases(queries, dialects, stricts, nils) ==
  [ query : queries, Dialect : dialects, Strict : stricts,
    ParamTypesNil : nils, IdentifyTables : {FALSE} ]

\* a call of Identify for each case; the ParamTypes of the options, used when
\* ParamTypesNil is false, give the MSSQL cases one sigil for the numbered,
\* named and quoted kinds and the BigQuery cases the comma as the named sigil
InitCases(cases) ==
  /\ \E c \in cases :
       /\ query = c.query
       /\ options = [ Strict |-> c.Strict, Dialect |-> c.Dialect,
                      IdentifyTables |-> c.IdentifyTables,
                      ParamTypesNil |-> c.ParamTypesNil,
                      ParamTypes |->
                        IF c.Dialect = DialectMSSQL
                          THEN ParamTypes(TRUE, {":"}, {":"}, {":"})
                        ELSE IF c.Dialect = DialectBigQuery
                          THEN ParamTypes(FALSE, {}, {","}, {})
                          ELSE ExplicitParamTypes ]
  /\ pc = "Identify"
  /\ paramTypes = DefaultParamTypesFor(DialectGeneric)
  /\ position = -1
  /\ statementParser = NoParser
  /\ cte = InitialCte
  /\ tokens = <<>>
  /\ body = <<>>
  /\ results = NilResults
  /\ err = NoError

\* the largest number of pieces of an input about literals and comments
MaxLexPieces == 3

\* openers and closers of strings, quoted identifiers and comments, and a
\* text that would be a positional, a named and a numbered parameter and a
\* statement end if it stood outside a literal
LexQueries ==
  Concats({ <<"?", ":", "a", "$", "1", ";">>,
            <<"'">>,
            <<"\"">>,
            <<"-", "-">>,
            <<"\n">>,
            <<"/", "*">>,
            <<"*", "/">>,
            <<"$", "1", "$">>,
            <<"$", "a", "$">> }, MaxLexPieces)

\* the largest number of pieces of an input without statements
MaxBlankPieces == 3

\* whitespace, semicolons and comments, and a word
BlankQueries ==
  Concats({ <<" ">>, <<";">>, <<"-","-","c","\n">>, <<"/","*","c","*","/">>, <<"x">> }, MaxBlankPieces)

\* the largest number of parameters of an input
MaxParams == 3

\* SELECT over a list of parameters, and the same list inside a WITH header
\* whose statement repeats a named parameter
ParamQueries ==
  LET lists == Concats({ <<"$","2"," ">>, <<"$","1","0"," ">>, <<"?"," ">>, <<":","a"," ">> }, MaxParams)
  IN { <<"S","E","L","E","C","T"," ">> \o l : l \in lists }
     \cup { <<"W","I","T","H"," ","c"," ","A","S"," ","(">> \o l \o <<")"," ","S","E","L","E","C","T"," ",":","a">> : l \in lists }

\* the largest number of definitions of a WITH header
MaxCteDefs == 2

\* lists of one to n definitions of a WITH header: plain, with a column
\* list, nested parentheses and a parameter, and with a parenthesis inside
\* a string
RECURSIVE CteDefLists(_)
CteDefLists(n) ==
  LET defs == { <<"a"," ","A","S"," ","(","x",")">>,
                <<"b","(","c",")"," ","A","S"," ","(","(","x",")",",","(","?",")",")">>,
                <<"c"," ","A","S"," ","(","S","E","L","E","C","T"," ","'",")","'",")">> }
  IN IF n = 1 THEN defs
     ELSE LET shorter == CteDefLists(n - 1)
          IN shorter \cup { l \o <<",">> \o d : l \in shorter, d \in defs }

\* inputs made of a prefix, a header, a gap and a following statement, with
\* the offset of the WITH, the number of statements and the type that the
\* first word after the header stands for
CteInputs ==
  { [ text |-> p.text \o <<"W","I","T","H"," ">> \o l \o g \o f.text, start |-> Len(p.text),
      count |-> p.count + 1, type |-> f.type ] :
      p \in { [ text |-> <<>>, count |-> 0 ],
              [ text |-> <<"S","E","L","E","C","T"," ","x",";">>, count |-> 1 ] },
      l \in CteDefLists(MaxCteDefs),
      g \in { <<>>, <<"\n">> },
      f \in { [ text |-> <<"S","E","L","E","C","T"," ","x">>, type |-> StatementSelect ],
              [ text |-> <<"I","N","S","E","R","T"," ","I","N","T","O"," ","t">>, type |-> StatementInsert ],
              [ text |-> <<"D","E","L","E","T","E"," ","F","R","O","M"," ","t",";">>, type |-> "DELETE" ],
              [ text |-> <<"C","R","E","A","T","E"," ","T","A","B","L","E"," ","t">>, type |-> "CREATE_TABLE" ] } }

\* WITH headers cut short by a semicolon, before AS, inside the parentheses
\* and after a parameter, followed by further input
PrematureQueries ==
  { h \o r :
      h \in { <<"W","I","T","H"," ","a",";">>,
              <<"W","I","T","H"," ","a"," ","A","S"," ","(","S","E","L","E","C","T"," ","x",";">>,
              <<" ","W","I","T","H"," ","a"," ","A","S"," ","(","(","?",")",";">>,
              <<"S","E","L","E","C","T"," ","x",";","W","I","T","H"," ","a"," ","A","S"," ","(",")",";">> },
      r \in { <<>>,
              <<" ","S","E","L","E","C","T"," ","?">>,
              <<"W","I","T","H"," ","b"," ","A","S"," ","(","x",")"," ","S","E","L","E","C","T"," ","x">>,
              <<")",";","I","N","S","E","R","T"," ","I","N","T","O"," ","t">> } }

\* the deepest nesting of blocks inside the outer Oracle block
MaxBlockDepth == 1

\* what the body of a block is made of: a plain statement, a CASE ... END
\* CASE, and, down to depth d, an inner BEGIN ... END; or DECLARE ... BEGIN
\* ... END; block around such an item
RECURSIVE BlockItems(_)
BlockItems(d) ==
  LET plain == { <<"x",";"," ">>,
                 <<"C","A","S","E"," ","y"," ","E","N","D"," ","C","A","S","E",";"," ">> }
  IN IF d = 0 THEN plain
     ELSE LET inner == BlockItems(d - 1)
          IN plain
             \cup { <<"B","E","G","I","N"," ">> \o i \o <<"E","N","D",";"," ">> : i \in inner }
             \cup { <<"D","E","C","L","A","R","E"," ","w",";"," ","B","E","G","I","N"," ">> \o i \o <<"E","N","D",";"," ">> : i \in inner }

\* DECLARE ... BEGIN ... END; with one item or two items, one of them not a
\* block, in its body, alone or followed by a statement, with the offset of
\* the final semicolon of the block and the type of the statement after it
BlockInputs ==
  LET items == BlockItems(MaxBlockDepth)
  IN { [ text |-> <<"D","E","C","L","A","R","E"," ","v",";"," ","B","E","G","I","N"," ">> \o b \o <<"E","N","D",";">> \o f.text,
         blockEnd |-> Len(<<"D","E","C","L","A","R","E"," ","v",";"," ","B","E","G","I","N"," ">> \o b \o <<"E","N","D",";">>) - 1,
         type |-> f.type ] :
         b \in items \cup { i \o j : i \in BlockItems(0), j \in items }
                     \cup { i \o j : i \in items, j \in BlockItems(0) },
         f \in { [ text |-> <<>>, type |-> NoType ],
                 [ text |-> <<" ","S","E","L","E","C","T"," ","x">>, type |-> StatementSelect ],
                 [ text |-> <<"\n","I","N","S","E","R","T"," ","I","N","T","O"," ","t",";">>, type |-> StatementInsert ] } }

\* the same text with its upper-case letters in lower case
ToLower(s) ==
  [ i \in DOMAIN s |->
      IF s[i] \in Range(UpperLetters)
        THEN LowerLetters[CHOOSE k \in 1..26 : UpperLetters[k] = s[i]]
        ELSE s[i] ]

\* the block and WITH inputs with every keyword in lower case
LowerBlockInputs == { [ i EXCEPT !.text = ToLower(i.text) ] : i \in BlockInputs }

LowerCteInputs == { [ i EXCEPT !.text = ToLower(i.text) ] : i \in CteInputs }

\* every input with the dialects, the modes and the parameter options it
\* is run under
\* the largest number of pieces of an input about parameter sigils
MaxSigilPieces == 3

FamilyCases ==
  Cases(LexQueries, { DialectPSQL }, {FALSE}, {FALSE})
  \cup Cases(Concats({ <<"?">>, <<":">>, <<"1">>, <<"a">>, <<" ">>,
                       <<"\"","b"," ","c","\"">> }, MaxSigilPieces),
             { DialectSQLite }, {FALSE}, {TRUE})
  \cup Cases(Concats({ <<"?">>, <<":">>, <<"1">>, <<"a">>, <<" ">>,
                       <<"\"","b"," ","c","\"">>, <<"\"","b","-","c","\"">> },
                     MaxSigilPieces),
             { DialectMSSQL }, {FALSE}, {FALSE})
  \cup Cases(Concats({ <<"$">>, <<":">>, <<"1">>, <<"a">>, <<"_">>, <<" ">> },
                     MaxSigilPieces),
             { DialectPSQL }, {FALSE}, BOOLEAN)
  \cup Cases(Concats({ <<"\"">>, <<Backtick>>, <<"[">>, <<"]">>,
                       <<"\"","\"">>, <<"S","E","L","E","C","T">> },
                     MaxSigilPieces),
             { DialectGeneric, DialectMSSQL, DialectMySQL }, {FALSE}, {TRUE})
  \cup Cases(BlankQueries, { DialectGeneric }, BOOLEAN, {TRUE})
  \cup Cases({ <<"W","I","T","H"," ","a"," ","A","S"," ","(","S","E","L","E","C","T"," ","1",")",","," ","b"," ","A","S"," ","(","S","E","L","E","C","T"," ","2",")"," ","S","E","L","E","C","T"," ","3">>,
               <<"W","I","T","H"," ","a"," ","A","S"," ","(","x",")",","," ","b"," ","A","S"," ","(","x",")",";","W","I","T","H"," ","c"," ","A","S"," ","(","x",")"," ","S","E","L","E","C","T"," ","3">> },
             { DialectBigQuery }, {TRUE}, {FALSE})
  \cup Cases(BlankQueries, { InvalidDialect }, {FALSE}, {TRUE})
  \cup Cases(ParamQueries, { DialectPSQL }, {TRUE}, BOOLEAN)
  \cup Cases(ParamQueries, { DialectSQLite }, {TRUE}, {TRUE})
  \cup Cases({ i.text : i \in CteInputs }, { DialectGeneric }, BOOLEAN, {TRUE})
  \cup Cases(PrematureQueries, { DialectGeneric }, BOOLEAN, {TRUE})
  \cup Cases({ i.text : i \in BlockInputs }, { DialectOracle }, BOOLEAN, {TRUE})
  \cup Cases({ i.text : i \in LowerBlockInputs }, { DialectOracle }, BOOLEAN, {TRUE})
  \cup Cases({ i.text : i \in LowerCteInputs }, { DialectGeneric }, {TRUE}, {TRUE})

InitFamilies == InitCases(FamilyCases)

SpecFamilies == InitFamilies /\ [][Next]_vars

(***************************************************************************)
(* A third specification, for the block tracking of AddToken: the same      *)
(* actions over inputs that open statements with BEGIN and DECLARE, name     *)
(* the object of CREATE, DROP and ALTER, and put block openers, END and      *)
(* semicolons in the body of statements.                                     *)
(***************************************************************************)
\* a leading BEGIN or DECLARE, in upper or lower case, followed by
\* TRANSACTION, by one of the SQLite transaction modes or by something else
LeadQueries ==
  { l \o n :
      l \in { <<"B","E","G","I","N">>, <<"D","E","C","L","A","R","E">>, <<"b","e","g","i","n">>, <<";","B","E","G","I","N">> },
      n \in { <<>>, <<" ","T","R","A","N","S","A","C","T","I","O","N",";">>, <<"\n","t","r","a","n","s","a","c","t","i","o","n">>, <<" ","D","E","F","E","R","R","E","D",";">>, <<" ","x",";"," ","E","N","D",";">>, <<";">>, <<"/","*","c","*","/","T","R","A","N","S","A","C","T","I","O","N">> } }

\* CREATE, DROP and ALTER followed by whitespace and a token: the eight
\* object keywords, a lower-case one, other words, a string and a semicolon
ObjectInputs ==
  { [ text |-> v \o <<" ">> \o w.rest, verb |-> Up(v), word |-> w.word ] :
      v \in { <<"C","R","E","A","T","E">>, <<"D","R","O","P">>, <<"A","L","T","E","R">> },
      w \in {
        [ rest |-> <<"D","A","T","A","B","A","S","E"," ","t">>, word |-> "DATABASE" ],
        [ rest |-> <<"S","C","H","E","M","A"," ","t">>, word |-> "SCHEMA" ],
        [ rest |-> <<"T","A","B","L","E"," ","t">>, word |-> "TABLE" ],
        [ rest |-> <<"V","I","E","W"," ","t">>, word |-> "VIEW" ],
        [ rest |-> <<"T","R","I","G","G","E","R"," ","t">>, word |-> "TRIGGER" ],
        [ rest |-> <<"F","U","N","C","T","I","O","N"," ","t">>, word |-> "FUNCTION" ],
        [ rest |-> <<"I","N","D","E","X"," ","t">>, word |-> "INDEX" ],
        [ rest |-> <<"P","R","O","C","E","D","U","R","E"," ","t">>, word |-> "PROCEDURE" ],
        [ rest |-> <<"t","a","b","l","e"," ","t">>, word |-> "TABLE" ],
        [ rest |-> <<"x"," ","t">>, word |-> "X" ],
        [ rest |-> <<"S","E","L","E","C","T"," ","t">>, word |-> "SELECT" ],
        [ rest |-> <<"'","T","A","B","L","E","'"," ","t">>, word |-> "'TABLE'" ],
        [ rest |-> <<";">>, word |-> ";" ] } }

\* the largest number of block tokens after the head of a statement
MaxTailPieces == 3

\* the head of a statement, or none, or a function that has closed a block,
\* followed by block openers, END and semicolons
TailQueries ==
  { h \o t :
      h \in { <<>>, <<"C","R","E","A","T","E"," ","T","R","I","G","G","E","R"," ","t"," ">>, <<"S","E","L","E","C","T"," ">>, <<"D","E","C","L","A","R","E"," ">>,
               <<"C","R","E","A","T","E"," ","F","U","N","C","T","I","O","N"," ","f"," ","B","E","G","I","N"," ","E","N","D"," ","x"," ">> },
      t \in Concats({ <<"B","E","G","I","N"," ">>, <<"E","N","D"," ">>, <<"C","A","S","E"," ">>, <<";">> }, MaxTailPieces) }

\* the words of a statement joined by a space, by a block comment between
\* spaces, or by an inline comment after a space and before a line break
RECURSIVE Separated(_)
Separated(words) ==
  IF Len(words) = 1 THEN { words[1] }
  ELSE { words[1] \o sep \o rest :
           sep \in { <<" ">>,
                     <<" ","/","*","c","*","/"," ">>,
                     <<" ","-","-","c","\n"," ">> },
           rest \in Separated(Tail(words)) }

\* statements with comments between their tokens, and the types of the
\* statements without the comments
CommentInputs ==
  UNION { { [ text |-> t, types |-> b.types ] : t \in Separated(b.words) } :
    b \in {
      [ words |-> << <<"C","R","E","A","T","E">>, <<"T","A","B","L","E">>, <<"t">> >>,
          types |-> << "CREATE_TABLE" >> ],
      [ words |-> << <<"D","R","O","P">>, <<"V","I","E","W">>, <<"v">> >>,
          types |-> << "DROP_VIEW" >> ],
      [ words |-> << <<"A","L","T","E","R">>, <<"T","A","B","L","E">>, <<"t">> >>,
          types |-> << "ALTER_TABLE" >> ],
      [ words |-> << <<"S","H","O","W">>, <<"T","A","B","L","E","S">> >>,
          types |-> << "SHOW_TABLES" >> ],
      [ words |-> << <<"S","E","L","E","C","T">>, <<"x">>, <<";">>, <<"I","N","S","E","R","T">> >>,
          types |-> << "SELECT", "INSERT" >> ] } }

BlockFamilyCases ==
  Cases(LeadQueries,
        { DialectOracle, DialectBigQuery, DialectSQLite, DialectMySQL },
        BOOLEAN, {TRUE})
  \cup Cases(TailQueries, { DialectOracle }, BOOLEAN, {TRUE})
  \cup Cases(TailQueries, { DialectMySQL }, {FALSE}, {TRUE})
  \cup Cases({ i.text : i \in ObjectInputs },
             { DialectSQLite, DialectBigQuery, DialectGeneric }, {TRUE}, {TRUE})
  \cup Cases({ <<"W","I","T","H"," ","a"," ","A","S"," ","(","x",")"," ",",","b"," ","A","S"," ","(","x",")"," ","S","E","L","E","C","T"," ","x">>, <<"W","I","T","H"," ","a",";">> },
             { DialectGeneric, InvalidDialect }, {FALSE}, {TRUE})
  \cup [ query : { h \o t :
                      h \in { <<"S","E","L","E","C","T"," ">>,
                             <<"I","N","S","E","R","T"," ">>,
                             <<"D","E","L","E","T","E"," ">>,
                             <<"W","I","T","H"," ","c"," ","A","S"," ","(","x",")"," ","S","E","L","E","C","T"," ">> },
                      t \in Concats({ <<"F","R","O","M"," ","a"," ">>, <<"j","o","i","n"," ","b"," ">>, <<"I","N","T","O"," ">>, <<";">> }, MaxTailPieces) },
           Dialect : { DialectGeneric }, Strict : {FALSE},
           ParamTypesNil : {TRUE}, IdentifyTables : BOOLEAN ]
  \cup Cases({ i.text : i \in CommentInputs }, { DialectGeneric }, BOOLEAN, {TRUE})

InitBlocks == InitCases(BlockFamilyCases)

SpecBlocks == InitBlocks /\ [][Next]_vars

\* The block inputs and the lexer inputs under fairness.  Identify is one
\* sequential call, and a call that has a step to take takes it: the call enters Parse or returns the dialect error, and the
\* loop of Parse, which has a branch for every token, keeps taking steps for
\* as long as the call is in Parse
FairSpecBlocks ==
  /\ InitCases(BlockFamilyCases
                 \cup Cases(LexQueries, { DialectPSQL }, {FALSE}, {FALSE}))
  /\ [][Next]_vars
  /\ WF_vars(IdentifyInvalidDialect \/ IdentifyCallParse)
  /\ []<>(pc # "Parse") \/ []<><<Next>>_vars

(***************************************************************************)
(* Properties                                                              *)
(***************************************************************************)
Last(seq) == seq[Len(seq)]

\* the least element of a non-empty set of integers
Least(S) == CHOOSE j \in S : \A k \in S : j <= k

\* C1: every statement finalized by Parse, whether ended by a semicolon, by
\* the end of the input or by the premature end of a CTE, in strict and in
\* non-strict mode, has 0 <= start <= end <= last input offset.
C1_StatementSpansInRange ==
  \A i \in DOMAIN body :
     /\ 0 <= body[i].Start
     /\ body[i].Start <= body[i].End
     /\ body[i].End <= TopEnd

\* C2: the statements produced by Parse are strictly ordered and do not
\* overlap: for consecutive statements s and t, s.start < t.start and
\* s.end < t.start.
C2_StatementsStrictlyOrdered ==
  \A i \in 1..(Len(body) - 1) :
     /\ body[i].Start < body[i + 1].Start
     /\ body[i].End < body[i + 1].Start

\* C3: with strict = false and a recognized dialect, Identify never returns
\* an error, whatever the query.
C3_NonStrictNeverFails ==
  (pc = "Done" /\ ~options.Strict /\ options.Dialect \in DIALECTS)
     => err = NoError

\* the token under the cursor would start a statement and is no
\* statement-initiating keyword of the dialect
InvalidStatementStart(scan) ==
  /\ StartsStatement(scan.tok)
  /\ ParserKindByToken(scan.tok, NextToken(scan),
                       [ParseOptions EXCEPT !.IsStrict = FALSE]) = "UNKNOWN"

\* C4: in strict mode, when the first non-blank token of a would-be
\* statement is no statement-initiating keyword of the dialect, Identify
\* ends with the error Invalid statement parser "<token text>" and nil
\* results, whatever statements were classified before.
C4_StrictInvalidStartFails ==
  [][ (InLoop /\ options.Strict /\ InvalidStatementStart(Scan))
        => /\ pc' = "Done"
           /\ results' = NilResults
           /\ err' = "Invalid statement parser \"" \o Str(Scan.tok.Value) \o "\"" ]_vars

\* a strict call that failed on the token x after a first statement was
\* classified
C4_Witness ==
  /\ pc = "Done" /\ options.Strict
  /\ Len(body) = 1 /\ body[1].Type = StatementSelect
  /\ err = "Invalid statement parser \"x\""
  /\ results = NilResults

\* C5: in strict mode no statement returned by Identify has type UNKNOWN.
C5_StrictNeverReturnsUnknown ==
  (pc = "Done" /\ options.Strict /\ err = NoError)
     => \A i \in DOMAIN results.Items : results.Items[i].Type # StatementUnknown

\* AddToken of the active parser on the token under the cursor, in the
\* given mode
AddTokenIn(scan, strict) ==
  AddToken(statementParser, scan.tok, NextToken(scan),
           [ParseOptions EXCEPT !.IsStrict = strict])

\* the active parser's step rejects the token under the cursor in strict
\* mode and takes it in non-strict mode
StepMismatch(scan) ==
  /\ statementParser # NoParser
  /\ AddTokenIn(scan, TRUE).err # NoError
  /\ AddTokenIn(scan, FALSE).err = NoError

\* in non-strict mode a token that cannot start a statement gets the
\* unknown-statement parser, and Parse goes on
UnknownStartTaken ==
  (InLoop /\ ~options.Strict /\ InvalidStatementStart(Scan))
     => /\ pc' = "Parse"
        /\ statementParser'.kind = "UNKNOWN"

\* a statement emitted by the unknown-statement parser has type UNKNOWN and
\* execution type UNKNOWN
UnknownEmitted ==
  (pc = "Parse" /\ ~options.Strict /\ statementParser.kind = "UNKNOWN"
     /\ body' # body)
     => /\ Last(body').Type = StatementUnknown
        /\ Last(body').ExecutionType = ExecutionUnknown

\* the type the source gives a statement whose object word is taken
\* without being accepted
MismatchType(kind, token) ==
  kind \o "_" \o Up(IF kind = "SHOW" THEN ReplaceSpaces(token.Value) ELSE token.Value)

\* the execution type of the table for a type, UNKNOWN without entry
TableExecutionType(type) ==
  IF ExecutionTypes(type) # "nil" THEN ExecutionTypes(type) ELSE ExecutionUnknown

C7_InvalidDialectRejected ==
  options.Dialect \notin DIALECTS
     => /\ pc \in {"Identify", "Done"}
        /\ position = -1 /\ tokens = <<>> /\ body = <<>>
        /\ pc = "Done" => (err # NoError /\ results = NilResults)

\* a non-strict call with an unrecognized dialect and a query that holds a
\* statement has returned
C7_Witness ==
  /\ pc = "Done" /\ ~options.Strict
  /\ options.Dialect \notin DIALECTS
  /\ query = <<"S","E","L","E","C","T">>
  /\ err # NoError /\ results = NilResults /\ tokens = <<>>

\* C8: the tokens recorded by Parse partition the input: the first starts
\* at offset 0, every token has start <= end, each next token starts at the
\* previous token's end + 1, and the last one ends at the last offset.
C8_TokensPartitionInput ==
  pc = "Parsed"
     => /\ query # <<>> => /\ tokens # <<>>
                           /\ tokens[1].Start = 0
                           /\ Last(tokens).End = TopEnd
        /\ \A i \in DOMAIN tokens : tokens[i].Start <= tokens[i].End
        /\ \A i \in 1..(Len(tokens) - 1) : tokens[i + 1].Start = tokens[i].End + 1

\* the semicolon tokens that start after an offset
SemicolonsAfter(start) ==
  { j \in DOMAIN tokens : tokens[j].Type = TokenSemicolon /\ tokens[j].Start > start }

\* the tokens after token j that are no whitespace, comment or semicolon
StatementTokensAfter(j) ==
  { k \in DOMAIN tokens : k > j /\ tokens[k].Type \notin ignoreOutsideBlankTokens }

\* C9: a statement whose type does not require block closure ends at the
\* first semicolon token after its start, with end = that semicolon's
\* offset, and the next statement starts at the start of the first
\* following token that is no whitespace, comment or semicolon.
C9_EndsAtFirstSemicolon ==
  pc = "Parsed"
     => \A i \in DOMAIN body :
          (body[i].Type \notin statementsWithEnds
             /\ SemicolonsAfter(body[i].Start) # {})
          => LET semi == Least(SemicolonsAfter(body[i].Start))
             IN /\ body[i].End = tokens[semi].Start
                /\ i < Len(body)
                   => /\ StatementTokensAfter(semi) # {}
                      /\ body[i + 1].Start =
                            tokens[Least(StatementTokensAfter(semi))].Start

\* C10: when the input ends while a statement parser is active and no
\* terminating semicolon was seen, the statement is emitted with end = the
\* last offset of the input; no final semicolon is required.
C10_LastStatementEndsAtInputEnd ==
  (pc = "Parsed" /\ statementParser # NoParser)
     => /\ body # <<>>
        /\ Last(body).End = Len(query) - 1
        /\ Last(body).Start = statementParser.statement.Start

\* a parse that ended on trailing whitespace with its statement still open
C10_Witness ==
  /\ pc = "Parsed" /\ statementParser # NoParser
  /\ query = <<"S","E","L","E","C","T"," ">>
  /\ Len(body) = 1 /\ body[1].Start = 0 /\ body[1].End = 6
\* the token is at least two characters long and ends with closer
ClosedBy(t, closer) == Len(t.Value) >= 2 /\ Last(t.Value) = closer

\* some character after offset start is ch
HasAfter(start, ch) == \E j \in (start + 1)..TopEnd : At(query, j) = ch

TokenLast(t) == t.Start + Len(t.Value) - 1

\* a token that starts at the opener of a string, of a comment or of a
\* quoted identifier is of that kind and runs through its closer
OpaqueToken(t) ==
  LET s  == t.Start
      ch == At(query, s)
      nx == IF s < TopEnd THEN At(query, s + 1) ELSE eof
      d  == options.Dialect
  IN /\ isString(ch, d) =>
          /\ t.Type = TokenString
          /\ HasAfter(s, endTokens(ch)) => ClosedBy(t, endTokens(ch))
     /\ (ch = "-" /\ nx = "-") =>
          /\ t.Type = TokenCommentInline
          /\ \A i \in 1..(Len(t.Value) - 1) : t.Value[i] # "\n"
          /\ Last(t.Value) = "\n" \/ TokenLast(t) = TopEnd
     /\ (ch = "/" /\ nx = "*") =>
          /\ t.Type = TokenCommentBlock
          /\ \/ TokenLast(t) = TopEnd
             \/ /\ Len(t.Value) >= 4
                /\ SubSeq(t.Value, Len(t.Value) - 1, Len(t.Value)) = <<"*", "/">>
     /\ DollarOpenerLen(query, s) > 0 => t.Type = TokenString
     /\ (isQuotedIdentifier(ch, d) /\ ~isString(ch, d)) =>
          /\ t.Type = TokenKeyword
          /\ HasAfter(s, endTokens(ch)) => ClosedBy(t, endTokens(ch))

\* C11: the content of string literals, comments and quoted identifiers is
\* opaque: a token that starts at the opener of one is of that kind and runs
\* through its closer, no token starts inside another, every parameter of a
\* statement is the text of a parameter token, and a statement ends at a
\* semicolon token or at the end of the input
C11_LiteralContentOpaque ==
  /\ \A k \in DOMAIN tokens : OpaqueToken(tokens[k])
  /\ \A k \in 1..(Len(tokens) - 1) :
       tokens[k + 1].Start = tokens[k].Start + Len(tokens[k].Value)
  /\ \A i \in DOMAIN body :
       /\ \A j \in DOMAIN body[i].Parameters :
            \E k \in DOMAIN tokens :
              /\ tokens[k].Type = TokenParameter
              /\ tokens[k].Value = body[i].Parameters[j]
       /\ \/ body[i].End = TopEnd
          \/ \E k \in DOMAIN tokens :
               /\ tokens[k].Type = TokenSemicolon
               /\ tokens[k].Start = body[i].End

\* the statements expected of the WITH input i
CteOutcome(i) ==
  /\ Len(body) = i.count
  /\ Last(body).Start = i.start
  /\ Last(body).End = TopEnd
  /\ Last(body).Type = i.type

\* C12: a WITH header of one or more comma-separated definitions with
\* balanced parentheses is folded into the statement that follows it: that
\* statement is the only one produced from the header on, its type is the
\* one of the first word after the header, and it starts at the WITH
C12_WithHeaderFolded ==
  pc = "Parsed" =>
    \A i \in CteInputs : query = i.text => CteOutcome(i) /\ Last(body).IsCte

\* a header of two definitions, the first with a column list and nested
\* parentheses, folded into an INSERT in strict mode
C12_Witness ==
  /\ pc = "Parsed"
  /\ query = <<"W","I","T","H"," ","b","(","c",")"," ","A","S"," ","(","(","x",")",",","(","?",")",")",",","a"," ","A","S"," ","(","x",")","\n","I","N","S","E","R","T"," ","I","N","T","O"," ","t">>
  /\ options.Strict
  /\ Len(body) = 1 /\ body[1].Start = 0 /\ body[1].Type = StatementInsert

\* the start of the first token after the last finalized statement that is
\* not whitespace, a comment or a semicolon
PendingStart ==
  LET after == IF body = <<>> THEN -1 ELSE Last(body).End
  IN Least({ tokens[k].Start : k \in { n \in DOMAIN tokens :
                 /\ tokens[n].Start > after
                 /\ tokens[n].Type \notin ignoreOutsideBlankTokens } })

PrematureEnd ==
  /\ InLoop /\ statementParser = NoParser
  /\ cte.isCte /\ Scan.tok.Type = TokenSemicolon

\* C13: a semicolon met while a WITH header is tracked yields exactly one
\* UNKNOWN/UNKNOWN statement from the WITH to the semicolon, and leaves Parse
\* as it is at the start of an input: no statement parser and the CTE
\* tracking reset, so that the following tokens are read as fresh input
C13_PrematureEndResets ==
  [][ PrematureEnd =>
        /\ body' = Append(body,
             [ Start |-> PendingStart, End |-> Scan.tok.Start,
               Type |-> StatementUnknown, ExecutionType |-> ExecutionUnknown,
               Parameters |-> <<>>, Tables |-> <<>>, IsCte |-> FALSE ])
        /\ statementParser' = NoParser
        /\ ~cte'.isCte /\ ~cte'.asSeen /\ ~cte'.statementEnd
        /\ cte'.parens = 0 /\ cte'.params = <<>> ]_vars

\* the statements expected of the block input i: the block from its first
\* character to its final semicolon, then the following statement
BlockOutcome(i) ==
  /\ Len(body) = IF i.type = NoType THEN 1 ELSE 2
  /\ body[1].Type = StatementAnonBlock
  /\ body[1].Start = 0
  /\ body[1].End = i.blockEnd
  /\ i.type # NoType =>
       /\ body[2].Type = i.type
       /\ body[2].Start = i.blockEnd + 2
       /\ body[2].End = TopEnd

\* C14: in the Oracle dialect a DECLARE ... BEGIN ... END; block with inner
\* semicolons, nested BEGIN ... END; and DECLARE ... BEGIN ... END; blocks
\* and CASE ... END CASE always comes out as exactly one ANON_BLOCK statement
\* from the outer DECLARE to the final semicolon, and the statement after it
\* comes out separately
C14_OracleBlockIsOneStatement ==
  [](pc = "Parsed" => \A i \in BlockInputs : query = i.text => BlockOutcome(i))

\* a block holding a nested DECLARE block around a CASE, then a SELECT
C14_Witness ==
  /\ pc = "Parsed"
  /\ query = <<"D","E","C","L","A","R","E"," ","v",";"," ","B","E","G","I","N"," ","x",";"," ","D","E","C","L","A","R","E"," ","w",";"," ","B","E","G","I","N"," ","C","A","S","E"," ","y"," ","E","N","D"," ","C","A","S","E",";"," ","E","N","D",";"," ","E","N","D",";"," ","S","E","L","E","C","T"," ","x">>
  /\ Len(body) = 2
  /\ body[1].Type = StatementAnonBlock /\ body[2].Type = StatementSelect

\* C15: classification does not depend on letter case: the block and WITH
\* inputs written with every keyword (the verbs, the object keywords, WITH,
\* AS, DECLARE, BEGIN, CASE, END) in lower case give the statements, with
\* the types, starts and ends, that they give in upper case
C15_CaseInsensitive ==
  pc = "Parsed" =>
    /\ \A i \in LowerBlockInputs : query = i.text => BlockOutcome(i)
    /\ \A i \in LowerCteInputs : query = i.text => CteOutcome(i)

\* the texts of the parameter tokens at offsets from..to, in order
RECURSIVE ParameterTokens(_, _, _)
ParameterTokens(k, from, to) ==
  IF k > Len(tokens) THEN <<>>
  ELSE IF /\ tokens[k].Type = TokenParameter
          /\ tokens[k].Start >= from /\ tokens[k].Start <= to
         THEN <<tokens[k].Value>> \o ParameterTokens(k + 1, from, to)
         ELSE ParameterTokens(k + 1, from, to)

\* a sequence of parameter texts with every repetition dropped, bare
\* question marks excepted
RECURSIVE FirstAppearances(_, _)
FirstAppearances(seen, rest) ==
  IF rest = <<>> THEN seen
  ELSE IF rest[1] # <<"?">> /\ Contains(seen, rest[1])
         THEN FirstAppearances(seen, Tail(rest))
         ELSE FirstAppearances(Append(seen, rest[1]), Tail(rest))

\* the statement is what is left of a WITH header ended by a semicolon
AbandonedHeader(st) ==
  /\ ~st.IsCte
  /\ \E k \in DOMAIN tokens : tokens[k].Start = st.Start /\ IsWith(tokens[k])

\* C16: the parameters of a statement, before any sorting, are the texts of
\* the parameter tokens of its span in order of first appearance, a bare ?
\* once per occurrence and every other text once, also when some of them
\* come from the WITH header of the statement
C16_ParametersDeduplicated ==
  pc # "Done" =>
    \A i \in DOMAIN body :
      AbandonedHeader(body[i]) \/
        body[i].Parameters =
          FirstAppearances(<<>>, ParameterTokens(1, body[i].Start, body[i].End))

\* C17: the execution type of every statement Parse returns is the entry of
\* the ExecutionTypes table for the statement's type, UNKNOWN when the table
\* has none, whichever parser classified the statement and whether or not a
\* WITH header precedes it
C17_ExecutionTypeFromTable ==
  \A i \in DOMAIN body : body[i].ExecutionType = TableExecutionType(body[i].Type)

\* C18: the text of every result is the characters of the query at the
\* offsets start to end, both included, cut at the end of the query, also
\* when the query holds characters wider than one byte
C18_TextIsSpanOfQuery ==
  (pc = "Done" /\ ~results.IsNil) =>
    \A i \in DOMAIN results.Items :
      LET r == results.Items[i]
      IN r.Text = Bytes(Slice(query, r.Start, Min(r.End + 1, Len(query))))

\* the types of the tokens that belong to no statement
BlankTypes ==
  { TokenWhitespace, TokenCommentInline, TokenCommentBlock, TokenSemicolon }

\* from offset start on the query is made of such tokens only
RECURSIVE BlankFrom(_)
BlankFrom(start) ==
  \/ start > TopEnd
  \/ LET s == ScanToken(query, start, options.Dialect, paramTypes)
     IN s.tok.Type \in BlankTypes /\ BlankFrom(s.pos + 1)

\* C19: whitespace, comments and semicolons before and between statements
\* never make a statement: every statement holds a token of another kind
\* after the end of the statement before it, and a query made of such tokens
\* only, or empty, gives an empty list of results and no error
C19_BlankTokensMakeNoStatement ==
  /\ \A i \in DOMAIN body :
       \E k \in DOMAIN tokens :
         /\ tokens[k].Type \notin BlankTypes
         /\ tokens[k].Start <= body[i].End
         /\ tokens[k].Start > (IF i = 1 THEN -1 ELSE body[i - 1].End)
  /\ (pc = "Done" /\ options.Dialect \in DIALECTS /\ BlankFrom(0)) =>
       /\ err = NoError
       /\ ~results.IsNil /\ results.Items = <<>>

\* two semicolons in a row and a comment, and nothing else
C19_Witness ==
  /\ pc = "Done"
  /\ query = <<";",";","-","-","c","\n">>
  /\ err = NoError /\ ~results.IsNil /\ results.Items = <<>>

\* how often e occurs in seq
Occurrences(seq, e) == Cardinality({ j \in DOMAIN seq : seq[j] = e })

\* b holds the elements of a in ascending byte-wise string order
SortedFrom(a, b) ==
  /\ Len(a) = Len(b)
  /\ \A j \in DOMAIN a : Occurrences(b, a[j]) = Occurrences(a, a[j])
  /\ \A j \in 1..(Len(b) - 1) : ~StringLess(b[j + 1], b[j])

\* C20: with the psql dialect and no ParamTypes in the options the
\* parameters of every result are those captured by Parse in lexicographic
\* string order; with any other dialect, and with psql and explicit
\* ParamTypes, they are in the order of capture
C20_ParameterOrder ==
  [][(pc = "Parsed" /\ pc' = "Done" /\ ~results'.IsNil) =>
       \A i \in DOMAIN results'.Items :
         IF options.Dialect = DialectPSQL /\ options.ParamTypesNil
           THEN SortedFrom(body[i].Parameters, results'.Items[i].Parameters)
           ELSE results'.Items[i].Parameters = body[i].Parameters]_vars

\* psql without ParamTypes: $2 then $10 in the statement, $10 then $2
\* returned
C20_Witness ==
  /\ pc = "Done" /\ ~results.IsNil
  /\ options.Dialect = DialectPSQL /\ options.ParamTypesNil
  /\ Len(body) = 1
  /\ ParameterTokens(1, 0, TopEnd) = << <<"$", "2">>, <<"$", "1", "0">> >>
  /\ results.Items[1].Parameters = << <<"$", "1", "0">>, <<"$", "2">> >>

\* psql with explicit ParamTypes: the order of capture is kept
C20_WitnessExplicit ==
  /\ pc = "Done" /\ ~results.IsNil
  /\ options.Dialect = DialectPSQL /\ ~options.ParamTypesNil
  /\ Len(body) = 1
  /\ results.Items[1].Parameters = << <<"$", "2">>, <<"$", "1", "0">> >>

\* the token that leads statement i: the first one after the end of the
\* statement before it that is not whitespace, a comment or a semicolon
LeadIndex(i) ==
  LET after == IF i = 1 THEN -1 ELSE body[i - 1].End
  IN Least({ k \in DOMAIN tokens :
               /\ tokens[k].Start > after
               /\ tokens[k].Type \notin BlankTypes })

\* token k is followed, whitespace apart, by the word TRANSACTION
BeforeTransaction(k) ==
  \E n \in (k + 1)..Len(tokens) :
    /\ Up(tokens[n].Value) = "TRANSACTION"
    /\ \A m \in (k + 1)..(n - 1) : tokens[m].Type = TokenWhitespace

\* a leading token that stands for an anonymous block in the dialect
OpensAnonBlock(k) ==
  /\ tokens[k].Type = TokenKeyword
  /\ \/ /\ Up(tokens[k].Value) = "BEGIN"
        /\ options.Dialect \in { DialectBigQuery, DialectOracle }
        /\ ~BeforeTransaction(k)
     \/ /\ Up(tokens[k].Value) = "DECLARE"
        /\ options.Dialect = DialectOracle

\* C21: a statement has type ANON_BLOCK exactly when its leading token is a
\* BEGIN that is not followed by TRANSACTION, in the bigquery and oracle
\* dialects, or a DECLARE in the oracle dialect; BEGIN TRANSACTION, DECLARE
\* in bigquery, and BEGIN and DECLARE in the other dialects never give it
C21_AnonBlockByDialect ==
  \A i \in DOMAIN body :
    IsWith(tokens[LeadIndex(i)]) \/
      (body[i].Type = StatementAnonBlock <=> OpensAnonBlock(LeadIndex(i)))

\* bigquery: BEGIN gives ANON_BLOCK
C21_Witness ==
  /\ pc = "Parsed"
  /\ options.Dialect = DialectBigQuery
  /\ query = <<"B","E","G","I","N"," ","x",";"," ","E","N","D",";">>
  /\ Len(body) = 1 /\ body[1].Type = StatementAnonBlock

ObjectKeywords ==
  { "DATABASE", "SCHEMA", "TABLE", "VIEW", "TRIGGER", "FUNCTION", "INDEX",
    "PROCEDURE" }

\* the object keywords the dialect leaves to a verb: the eight of them, less
\* DATABASE, SCHEMA and PROCEDURE in SQLite and less PROCEDURE for ALTER in
\* BigQuery
StatedObjectKeywords(dialect, verb) ==
  (ObjectKeywords
     \ (IF dialect = DialectSQLite THEN { "DATABASE", "SCHEMA", "PROCEDURE" }
        ELSE {}))
     \ (IF dialect = DialectBigQuery /\ verb = "ALTER" THEN { "PROCEDURE" }
        ELSE {})

\* the same, with only TABLE and VIEW left to ALTER in SQLite
DialectObjectKeywords(dialect, verb) ==
  IF dialect = DialectSQLite /\ verb = "ALTER" THEN { "TABLE", "VIEW" }
  ELSE StatedObjectKeywords(dialect, verb)

\* the call returned one statement of the given type and no error
ReturnedOne(type) ==
  /\ err = NoError
  /\ ~results.IsNil
  /\ Len(results.Items) = 1
  /\ results.Items[1].Type = type

CallFailed == err # NoError /\ results.IsNil

\* C22: in strict mode the token after CREATE, DROP or ALTER and whitespace
\* is accepted exactly when it is one of the object keywords the dialect
\* leaves to the verb, where SQLite leaves only TABLE and VIEW to ALTER; an
\* accepted keyword K gives the type <VERB>_<K>, and any other token, the
\* semicolon left aside, fails the call
C22_ObjectKeywordAccepted ==
  (pc = "Done" /\ options.Strict) =>
    \A i \in ObjectInputs :
      (query = i.text /\ i.word # ";") =>
        IF i.word \in DialectObjectKeywords(options.Dialect, i.verb)
          THEN ReturnedOne(i.verb \o "_" \o i.word)
          ELSE CallFailed

\* the statement with the eight keywords less DATABASE, SCHEMA and PROCEDURE
\* for every verb in SQLite
C22_ObjectKeywordAsStated ==
  (pc = "Done" /\ options.Strict) =>
    \A i \in ObjectInputs :
      (query = i.text /\ i.word # ";") =>
        IF i.word \in StatedObjectKeywords(options.Dialect, i.verb)
          THEN ReturnedOne(i.verb \o "_" \o i.word)
          ELSE CallFailed

\* sqlite, strict: ALTER INDEX fails the call
C22_Witness ==
  /\ pc = "Done" /\ options.Strict
  /\ options.Dialect = DialectSQLite
  /\ query = <<"A","L","T","E","R"," ","I","N","D","E","X"," ","t">>
  /\ CallFailed

\* sqlite, strict: DROP INDEX gives DROP_INDEX
C22_WitnessAccepted ==
  /\ pc = "Done" /\ options.Strict
  /\ options.Dialect = DialectSQLite
  /\ query = <<"D","R","O","P"," ","I","N","D","E","X"," ","t">>
  /\ ReturnedOne("DROP_INDEX")

\* the loop of Parse hands the next token to the statement parser
AddsToken == InLoop /\ statementParser # NoParser

\* the step completes the statement
EndsStatement == Len(body') = Len(body) + 1

\* the semicolon rule for a parser: a statement of a type that needs its
\* blocks closed ends when no block is open and it is UNKNOWN or a block
\* has been closed before; every other one ends, its type set or not
SemicolonEnds(p) ==
  p.statement.Type \in { "CREATE_TRIGGER", "CREATE_FUNCTION", "CREATE_PROCEDURE",
                         StatementAnonBlock, StatementUnknown } =>
    /\ p.openBlocks = 0
    /\ p.statement.Type = StatementUnknown \/ p.statement.CanEnd

\* C23: a semicolon ends a statement of type CREATE_TRIGGER, CREATE_FUNCTION,
\* CREATE_PROCEDURE, ANON_BLOCK or UNKNOWN exactly when the count of open
\* blocks is 0 and the type is UNKNOWN or the count has come back to 0
\* before; the first semicolon ends a statement of any other type, or with
\* no type yet, whatever the open blocks; and nothing but a semicolon ends a
\* statement before the end of the input
C23_SemicolonRule ==
  [][ AddsToken =>
        (EndsStatement <=>
           (Scan.tok.Type = TokenSemicolon /\ SemicolonEnds(statementParser)))
    ]_vars

\* CREATE FUNCTION f BEGIN END x BEGIN ; the function has closed a block
\* and has one open at the semicolon
C23_Witness ==
  /\ AddsToken
  /\ Scan.tok.Type = TokenSemicolon
  /\ statementParser.statement.Type = "CREATE_FUNCTION"
  /\ statementParser.statement.CanEnd
  /\ statementParser.openBlocks = 1

\* CREATE TRIGGER t ; the trigger has opened no block at the semicolon
C23_WitnessNoBlock ==
  /\ AddsToken
  /\ Scan.tok.Type = TokenSemicolon
  /\ statementParser.statement.Type = "CREATE_TRIGGER"
  /\ ~statementParser.statement.CanEnd
  /\ statementParser.openBlocks = 0

\* SELECT CASE ; the query has a block open at the semicolon
C23_WitnessOtherType ==
  /\ AddsToken
  /\ Scan.tok.Type = TokenSemicolon
  /\ statementParser.statement.Type = StatementSelect
  /\ statementParser.openBlocks > 0

\* the parser takes the token and goes on with the same statement
Continues == AddsToken /\ statementParser' # NoParser

\* C24: the count of open blocks is never negative; it goes down only by
\* one, at an END met with a block open, and every such END takes it down,
\* an END met with no block open leaving it at 0; the can-end flag of a
\* statement is set when and only when the count comes down to 0, and once
\* set it stays set for the rest of the statement
C24_OpenBlocksAndCanEnd ==
  /\ [](statementParser.openBlocks >= 0)
  /\ [][ Continues =>
           LET before == statementParser.openBlocks
               after  == statementParser'.openBlocks
               isEnd  == Up(Scan.tok.Value) = "END"
           IN /\ after < before => (isEnd /\ after = before - 1)
              /\ (isEnd /\ before > 0) => after = before - 1
              /\ (isEnd /\ before = 0) => after = 0
              /\ statementParser'.statement.CanEnd <=>
                   \/ statementParser.statement.CanEnd
                   \/ (after < before /\ after = 0)
       ]_vars

\* BEGIN END in a trigger: the count has come down to 0
C24_Witness ==
  /\ statementParser # NoParser
  /\ statementParser.statement.Type = "CREATE_TRIGGER"
  /\ statementParser.statement.CanEnd
  /\ statementParser.openBlocks = 0
  /\ Len(tokens) >= 4
  /\ Up(tokens[Len(tokens) - 3].Value) = "BEGIN"
  /\ Up(tokens[Len(tokens) - 1].Value) = "END"

\* an END met by a query with no block open
C24_WitnessStrayEnd ==
  /\ AddsToken
  /\ Up(Scan.tok.Value) = "END"
  /\ statementParser.statement.Type = StatementSelect
  /\ statementParser.openBlocks = 0

\* the token is BEGIN and the one after it, whitespace apart, makes it the
\* start of a transaction
BeginsTransaction(token, nextToken) ==
  /\ Up(token.Value) = "BEGIN"
  /\ \/ Up(nextToken.Value) = "TRANSACTION"
     \/ /\ options.Dialect = DialectSQLite
        /\ Up(nextToken.Value) \in { "DEFERRED", "IMMEDIATE", "EXCLUSIVE" }

\* the token is the BEGIN of an Oracle block whose DECLARE was the opener
\* before it
PairedWithDeclare(p, token) ==
  /\ options.Dialect = DialectOracle
  /\ Up(token.Value) = "BEGIN"
  /\ p.lastBlockOpener # NoToken
  /\ Up(p.lastBlockOpener.Value) = "DECLARE"

\* the token opens a block: a keyword of the block openers of the dialect
\* that does not follow END, begins no transaction and is not the BEGIN of
\* a DECLARE
OpensBlock(p, token, nextToken) ==
  /\ token.Type = TokenKeyword
  /\ Up(token.Value) \in blockOpeners(options.Dialect)
  /\ ~(/\ p.prevNonWhitespaceToken # NoToken
       /\ Up(p.prevNonWhitespaceToken.Value) = "END")
  /\ ~BeginsTransaction(token, nextToken)
  /\ ~PairedWithDeclare(p, token)

\* C25: a keyword of the block openers of the dialect adds exactly one to
\* the count of open blocks, unless the token before it, whitespace apart,
\* is END, or it is a BEGIN followed by TRANSACTION (in SQLite also by
\* DEFERRED, IMMEDIATE or EXCLUSIVE), or it is the Oracle BEGIN that goes
\* with the DECLARE before it; no other token raises the count
C25_BlockOpenerIncrements ==
  [][ Continues =>
        IF OpensBlock(statementParser, Scan.tok, NextToken(Scan))
          THEN statementParser'.openBlocks = statementParser.openBlocks + 1
          ELSE statementParser'.openBlocks <= statementParser.openBlocks
    ]_vars

\* the same with the DECLARE recognised in upper case only
C25_UpperCaseDeclare ==
  [][ Continues =>
        IF \/ OpensBlock(statementParser, Scan.tok, NextToken(Scan))
           \/ /\ PairedWithDeclare(statementParser, Scan.tok)
              /\ Str(statementParser.lastBlockOpener.Value) # "DECLARE"
          THEN statementParser'.openBlocks = statementParser.openBlocks + 1
          ELSE statementParser'.openBlocks <= statementParser.openBlocks
    ]_vars

\* the statement of the parser has its type and its start
Opaque ==
  /\ statementParser # NoParser
  /\ statementParser.statement.Type # NoType
  /\ statementParser.statement.Start >= 0

\* C26: once the type and the start of a statement are set its body is
\* opaque: a later token raises no error, in strict mode or not, and leaves
\* the type as it is; the statement ends only at a semicolon that the
\* semicolon rule lets end it, or at the end of the input, and is recorded
\* with that type
C26_BodyIsOpaque ==
  [][ /\ (AddsToken /\ Opaque) =>
           /\ pc' = "Parse" /\ err' = NoError
           /\ IF EndsStatement
                THEN /\ Scan.tok.Type = TokenSemicolon
                     /\ SemicolonEnds(statementParser)
                     /\ Last(body').Type = statementParser.statement.Type
                ELSE /\ statementParser' # NoParser
                     /\ statementParser'.statement.Type = statementParser.statement.Type
      /\ (pc = "Parse" /\ pc' = "Parsed" /\ Opaque) =>
           /\ EndsStatement
           /\ Last(body').Type = statementParser.statement.Type
    ]_vars

\* strict mode: an END with no block open in the body of a trigger
C26_Witness ==
  /\ AddsToken /\ Opaque
  /\ options.Strict
  /\ statementParser.statement.Type = "CREATE_TRIGGER"
  /\ statementParser.openBlocks = 0
  /\ Up(Scan.tok.Value) = "END"

\* C27: no token is handed to a statement parser whose statement has its end
\* marker: the parser is dropped in the step that sets the marker, and no
\* call fails with "This statement has already got to the end."
C27_NoTokenAfterEnd ==
  /\ err # AlreadyEndedError
  /\ statementParser # NoParser => ~statementParser.statement.EndStatement

\* a token is handed to the parser of a statement that follows one ended by
\* a semicolon
C27_Witness ==
  /\ AddsToken
  /\ Len(body) >= 1
  /\ tokens[Len(tokens)].Start > body[Len(body)].End
  /\ \E k \in DOMAIN tokens :
       /\ tokens[k].Type = TokenSemicolon
       /\ tokens[k].End = body[Len(body)].End

\* the iteration records one token of one character or more and moves the
\* position to its last character
ConsumesToken ==
  /\ tokens' = Append(tokens, Scan.tok)
  /\ Len(Scan.tok.Value) >= 1
  /\ Scan.tok.Start = position + 1
  /\ position' = Scan.tok.End
  /\ position' > position

\* the iteration installs a statement parser and leaves the token, which the
\* parser is handed in the next one
InstallsParser ==
  /\ statementParser = NoParser
  /\ statementParser' # NoParser
  /\ position' = position /\ tokens' = tokens
  /\ pc' = "Parse"

\* C28: Parse comes to its end on every input: an iteration of its loop
\* either records exactly one token of one character or more and moves past
\* it, or installs a statement parser that takes that token in the next
\* iteration, or fails the call; the token looked ahead is found, and is not
\* whitespace, up to the end of the input
C28_ParseTerminates ==
  /\ <>(pc \in { "Parsed", "Done" })
  /\ [][ InLoop =>
           /\ pc' = "Done" \/ ConsumesToken \/ InstallsParser
           /\ statementParser # NoParser => ~InstallsParser
           /\ NextToken(Scan).Type # TokenWhitespace
       ]_vars

\* the loop has installed a parser at the last token of an input that ends
\* in whitespace, and goes on to hand it the token
C28_Witness ==
  /\ AddsToken
  /\ statementParser.statement.Start < 0
  /\ tokens = <<>>
  /\ Scan.pos < TopEnd
  /\ NextToken(Scan).Start > TopEnd

\* the token at start when the rules are tried in the order whitespace,
\* inline comment, block comment, string, dollar-quoted string, parameter,
\* quoted identifier, word, semicolon, other: the dollar-quoted string comes
\* before the parameter, the other rules are in the order of ScanToken
OrderedScanToken(input, start, dialect, types) ==
  LET r == read(input, start - 1)
  IN IF /\ ~isWhitespace(r.ch)
        /\ ~isCommentInline(r.ch, input, r.pos)
        /\ ~isCommentBlock(r.ch, input, r.pos)
        /\ ~isString(r.ch, dialect)
        /\ isDollarQuotedString(input, start)
       THEN scanDollarQuotedString(input, start, r.pos)
       ELSE ScanToken(input, start, dialect, types)

\* C29: every token is the one that the rules give in the order whitespace,
\* inline comment, block comment, string, dollar-quoted string, parameter,
\* quoted identifier, word, semicolon, other; a $label$ ... $label$ is one
\* string token whatever the parameter types, no parameter rule being tried
\* on its first $
C29_LexerOrder ==
  \A k \in DOMAIN tokens :
    tokens[k] = OrderedScanToken(query, tokens[k].Start, options.Dialect,
                                 paramTypes).tok

\* the offset of the last character of the parameter that starts at start
\* when the kind is satisfied there, and -1 when it is not
KindEnd(kind, input, start, dialect, types) ==
  LET ch     == At(input, start)
      nextCh == peek(input, start)
      run    == LetterDigitRun(input, start + 1)
  IN IF kind = "positional"
       THEN IF types.Positional /\ ch = "?" THEN start ELSE -1
     ELSE IF kind = "numbered"
       THEN IF /\ ch \in types.Numbered
               /\ run > 0
               /\ \A i \in (start + 1)..(start + run) : IsDigit(At(input, i))
              THEN start + run ELSE -1
     ELSE IF kind = "named"
       THEN IF ch \in types.Named /\ ~isQuotedIdentifier(nextCh, dialect)
              THEN ReadWhileAlphaNumeric(input, start) ELSE -1
     ELSE IF ch \in types.Quoted /\ isQuotedIdentifier(nextCh, dialect)
       THEN LET q == read(input, start)
            IN read(input, ReadQuotedParam(input, q.pos, endTokens(q.ch))).pos
     ELSE -1

\* the end of the parameter by the first kind of the order that is
\* satisfied, and the sigil alone when none is
FirstKindEnd(order, input, start, dialect, types) ==
  LET satisfied == { i \in DOMAIN order :
                       KindEnd(order[i], input, start, dialect, types) >= 0 }
  IN IF satisfied = {} THEN start
     ELSE KindEnd(order[Least(satisfied)], input, start, dialect, types)

C30_WitnessNamed ==
  /\ options.Dialect = DialectMSSQL
  /\ \E k \in DOMAIN tokens :
       /\ tokens[k].Type = TokenParameter
       /\ tokens[k].Value = <<":", "1", "a">>

\* no kind but the numbered one is satisfied at the sigil
OnlyNumbered(start) ==
  \A kind \in { "positional", "named", "quoted" } :
    KindEnd(kind, query, start, options.Dialect, paramTypes) = -1

\* C31: a token that starts at a sigil of the numbered set followed by a run
\* of letters and digits is the parameter made of the sigil and the run when
\* the run is all digits; when the run has a letter and no other kind is
\* satisfied at the sigil, it is the unknown token made of the sigil alone;
\* this under the default parameter types and under explicit ones.  (The
\* opener of a dollar-quoted string and a sigil next to a colon are left
\* out.)
C31_NumberedRule ==
  \A k \in DOMAIN tokens :
    LET start == tokens[k].Start
        ch    == At(query, start)
        run   == LetterDigitRun(query, start + 1)
        digits == \A i \in (start + 1)..(start + run) : IsDigit(At(query, i))
    IN (/\ ch \in paramTypes.Numbered
        /\ run > 0
        /\ ~isDollarQuotedString(query, start)
        /\ peek(query, start) # ":" /\ peekBack(query, start) # ":") =>
         IF digits
           THEN /\ tokens[k].Type = TokenParameter
                /\ tokens[k].Value = Slice(query, start, start + run + 1)
         ELSE OnlyNumbered(start) =>
                /\ tokens[k].Type = TokenUnknown
                /\ tokens[k].Value = <<ch>>

\* the token is the parameter made of its sigil and of the longest run of
\* letters, digits and underscores after it
SigilAndRun(t) ==
  /\ t.Type = TokenParameter
  /\ t.Value = Slice(query, t.Start,
                     t.Start + 1 + LetterDigitRun(query, t.Start + 1))

\* a colon with a colon on either side
CastColon(start) ==
  /\ At(query, start) = ":"
  /\ peek(query, start) = ":" \/ peekBack(query, start) = ":"

\* C32: a token that starts at a sigil of the named set whose next character
\* does not open a quoted identifier is the parameter made of the sigil and
\* of the run of letters, digits and underscores that follows, which may be
\* empty or start with a digit; a colon next to another colon is excepted
C32_NamedRule ==
  \A k \in DOMAIN tokens :
    LET start == tokens[k].Start
    IN (/\ At(query, start) \in paramTypes.Named
        /\ ~isQuotedIdentifier(peek(query, start), options.Dialect)
        /\ ~CastColon(start)) => SigilAndRun(tokens[k])

\* the same of every named sigil, the colons of :: included
C32_EveryOccurrence ==
  \A k \in DOMAIN tokens :
    LET start == tokens[k].Start
    IN (/\ At(query, start) \in paramTypes.Named
        /\ ~isQuotedIdentifier(peek(query, start), options.Dialect)) =>
         SigilAndRun(tokens[k])

\* :1_a is one named parameter
C32_Witness ==
  /\ ":" \in paramTypes.Named
  /\ \E k \in DOMAIN tokens :
       /\ tokens[k].Type = TokenParameter
       /\ tokens[k].Value = <<":", "1", "_">>

\* the second colon of :: before a name is no parameter
C32_WitnessCast ==
  /\ ":" \in paramTypes.Named
  /\ \E k \in DOMAIN tokens :
       /\ CastColon(tokens[k].Start)
       /\ peek(query, tokens[k].Start) = "a"
       /\ tokens[k].Type # TokenParameter

\* offset of the first character equal to ch at or after offset i, and the
\* length of the text when there is none
RECURSIVE FirstAt(_, _)
FirstAt(i, ch) ==
  IF i >= Len(query) \/ At(query, i) = ch THEN i ELSE FirstAt(i + 1, ch)

\* C33: a token that starts at a sigil of the quoted set followed by the
\* opener of a quoted identifier, when the closing quote is in the text, is a
\* parameter token whose last character is the first closing quote after the
\* opener, whatever lies between the two
C33_QuotedRule ==
  \A k \in DOMAIN tokens :
    LET start  == tokens[k].Start
        opener == peek(query, start)
        close  == FirstAt(start + 2, endTokens(opener))
    IN (/\ At(query, start) \in paramTypes.Quoted
        /\ ~CastColon(start)
        /\ isQuotedIdentifier(opener, options.Dialect)
        /\ close < Len(query)) =>
         /\ tokens[k].Type = TokenParameter
         /\ TokenLast(tokens[k]) = close

\* the characters that open a quoted identifier: the double quote and the
\* backtick, and in MSSQL the double quote and the left bracket; in MySQL the
\* double quote opens a string
IdentifierOpeners(dialect) ==
  IF dialect = DialectMSSQL THEN { "\"", "[" }
  ELSE IF dialect = DialectMySQL THEN { Backtick }
  ELSE { "\"", Backtick }

\* the openers as stated: the double quote and the backtick in every dialect
\* and the left bracket in MSSQL
StatedIdentifierOpeners(dialect) ==
  { "\"", Backtick } \cup (IF dialect = DialectMSSQL THEN { "[" } ELSE {})

\* a token that starts at an opener is a keyword token that ends at the first
\* closer after it, when there is one, and a statement led by such a token
\* has no type
QuotedIdentifierRule(openers) ==
  /\ \A k \in DOMAIN tokens :
       LET start == tokens[k].Start
           close == FirstAt(start + 1, endTokens(At(query, start)))
       IN At(query, start) \in openers =>
            /\ tokens[k].Type = TokenKeyword
            /\ close < Len(query) => TokenLast(tokens[k]) = close
  /\ \A i \in DOMAIN body :
       At(query, tokens[LeadIndex(i)].Start) \in openers =>
         body[i].Type = StatementUnknown

\* C34: a quoted identifier opens with a double quote or a backtick, and in
\* MSSQL with a double quote or a left bracket that a right bracket closes;
\* it is one keyword token through the first closer, a doubled closer
\* included, and its text is not taken for a keyword; a backtick in MSSQL
\* opens nothing, and a double quote in MySQL opens a string
C34_QuotedIdentifier ==
  /\ QuotedIdentifierRule(IdentifierOpeners(options.Dialect))
  /\ \A k \in DOMAIN tokens :
       LET ch == At(query, tokens[k].Start)
       IN /\ (ch \in { "\"", Backtick, "[" } \ IdentifierOpeners(options.Dialect))
               => tokens[k].Type # TokenKeyword
          /\ (ch = "\"" /\ options.Dialect = DialectMySQL)
               => tokens[k].Type = TokenString

\* the rule with the openers as stated
C34_StatedOpeners ==
  QuotedIdentifierRule(StatedIdentifierOpeners(options.Dialect))

\* mssql: [SELECT] is one keyword token and the statement has no type
C34_Witness ==
  /\ options.Dialect = DialectMSSQL
  /\ query = <<"[","S","E","L","E","C","T","]">>
  /\ Len(tokens) = 1 /\ tokens[1].Type = TokenKeyword /\ tokens[1].End = 7
  /\ Len(body) = 1 /\ body[1].Type = StatementUnknown

\* "SELECT"" is the identifier "SELECT" followed by another token
C34_WitnessDoubled ==
  /\ options.Dialect = DialectGeneric
  /\ query = <<"\"","S","E","L","E","C","T","\"","\"">>
  /\ Len(tokens) = 2 /\ tokens[1].End = 7

\* mssql: a backtick is not a keyword token
C34_WitnessBacktick ==
  /\ options.Dialect = DialectMSSQL
  /\ \E k \in DOMAIN tokens :
       /\ tokens[k].Value = <<Backtick>>
       /\ tokens[k].Type # TokenKeyword

\* index of the last token of statement i
EndIndex(i) ==
  CHOOSE k \in DOMAIN tokens : TokenLast(tokens[k]) = body[i].End

\* the texts of the tokens that follow, whitespace apart, the FROM, JOIN and
\* INTO of tokens k to n; the empty text where the input ends
RECURSIVE Followers(_, _)
Followers(k, n) ==
  IF k > n THEN <<>>
  ELSE IF Up(tokens[k].Value) \in { "FROM", "JOIN", "INTO" }
         THEN LET after == { m \in (k + 1)..Len(tokens) :
                               tokens[m].Type # TokenWhitespace }
              IN (IF after = {} THEN << <<>> >>
                  ELSE <<tokens[Least(after)].Value>>) \o Followers(k + 1, n)
  ELSE Followers(k + 1, n)

RECURSIVE Distinct(_, _)
Distinct(seen, rest) ==
  IF rest = <<>> THEN seen
  ELSE Distinct(IF Contains(seen, rest[1]) THEN seen ELSE Append(seen, rest[1]),
                Tail(rest))

\* C35: the tables of a SELECT or INSERT statement that does not begin with
\* a WITH header, when identifyTables is set, are the texts of the tokens
\* that follow the FROM, JOIN and INTO of the statement, in any case of
\* letters, once each in order of first appearance; every other statement,
\* one that begins with a WITH header included, has no tables, and no
\* statement has any when identifyTables is not set
C35_Tables ==
  \A i \in DOMAIN body :
    body[i].Tables =
      IF /\ options.IdentifyTables
         /\ body[i].Type \in { StatementSelect, StatementInsert }
         /\ ~IsWith(tokens[LeadIndex(i)])
        THEN Distinct(<<>>, Followers(LeadIndex(i), EndIndex(i)))
        ELSE <<>>

\* the same with the FROM, JOIN and INTO after a WITH header captured: the
\* header of the inputs has none of the three
C35_TablesAfterHeader ==
  \A i \in DOMAIN body :
    body[i].Tables =
      IF /\ options.IdentifyTables
         /\ body[i].Type \in { StatementSelect, StatementInsert }
        THEN Distinct(<<>>, Followers(LeadIndex(i), EndIndex(i)))
        ELSE <<>>

\* SELECT FROM a join b FROM a has the tables a and b
C35_Witness ==
  /\ options.IdentifyTables
  /\ Len(body) = 1
  /\ body[1].Type = StatementSelect
  /\ ~IsWith(tokens[1])
  /\ body[1].Tables = << <<"a">>, <<"b">> >>
  /\ Len(Followers(1, EndIndex(1))) = 3

\* a SELECT after a WITH header has no tables
C35_WitnessHeader ==
  /\ options.IdentifyTables
  /\ Len(body) = 1
  /\ IsWith(tokens[1])
  /\ body[1].Type = StatementSelect
  /\ Followers(1, EndIndex(1)) # <<>>
  /\ body[1].Tables = <<>>

\* no tables when identifyTables is not set
C35_WitnessDisabled ==
  /\ ~options.IdentifyTables
  /\ Len(body) = 1
  /\ body[1].Type = StatementSelect
  /\ Followers(1, EndIndex(1)) # <<>>
  /\ body[1].Tables = <<>>

\* the types of the statements returned
ResultTypes == [ k \in DOMAIN results.Items |-> results.Items[k].Type ]

\* C36: a statement with a block comment or an inline comment, between
\* whitespace, in the place of the whitespace between two of its tokens, the
\* verb and the object keyword of CREATE, DROP, ALTER and SHOW included, is
\* returned without an error as the same number of statements of the same
\* types as without the comments, in strict and in non-strict mode
C36_CommentsIgnored ==
  pc = "Done" =>
    \A i \in CommentInputs :
      query = i.text =>
        /\ err = NoError
        /\ ~results.IsNil
        /\ ResultTypes = i.types

\* the number written by a sequence of decimal digits
RECURSIVE Decimal(_)
Decimal(ds) ==
  IF ds = <<>> THEN 0
  ELSE 10 * Decimal(SubSeq(ds, 1, Len(ds) - 1))
         + (CHOOSE n \in 0..9 :
              <<"0","1","2","3","4","5","6","7","8","9">>[n + 1] = Last(ds))

\* C37: with the psql dialect and no ParamTypes in the options the
\* parameters of every result, which are a $ followed by digits, are in
\* ascending order of their numbers
C37_NumericOrder ==
  (pc = "Done" /\ ~results.IsNil
     /\ options.Dialect = DialectPSQL /\ options.ParamTypesNil) =>
    \A i \in DOMAIN results.Items :
      LET ps == results.Items[i].Parameters
      IN \A j \in 1..(Len(ps) - 1) :
           Decimal(Tail(ps[j])) <= Decimal(Tail(ps[j + 1]))

\* token k lies inside the span of statement i
Inside(k, i) ==
  /\ body[i].Start <= tokens[k].Start
  /\ TokenLast(tokens[k]) <= body[i].End

\* C38: when Parse returns without an error, every token that is not
\* whitespace, a comment or a semicolon lies inside the span of exactly one
\* of the statements returned
C38_NothingDropped ==
  (pc = "Parsed" /\ err = NoError) =>
    \A k \in DOMAIN tokens :
      tokens[k].Type \notin BlankTypes =>
        Cardinality({ i \in DOMAIN body : Inside(k, i) }) = 1

\* C39: the parameters of a statement returned by Parse are texts of
\* parameter tokens that lie inside the span of the statement, and every
\* parameter token inside the span is among them: no parameter of an earlier
\* statement, or of a WITH header ended by a semicolon, is among those of a
\* later one
C39_ParametersOfOwnSpan ==
  pc = "Parsed" =>
    \A i \in DOMAIN body :
      /\ \A j \in DOMAIN body[i].Parameters :
           \E k \in DOMAIN tokens :
             /\ tokens[k].Type = TokenParameter
             /\ tokens[k].Value = body[i].Parameters[j]
             /\ Inside(k, i)
      /\ \A k \in DOMAIN tokens :
           (tokens[k].Type = TokenParameter /\ Inside(k, i)) =>
             Contains(body[i].Parameters, tokens[k].Value)

\* C40: a token that starts at the opener of a string or of a quoted
\* identifier, with no closing delimiter anywhere after the opener, is a
\* string or a keyword token that runs to the last character of the input
C40_UnterminatedToEnd ==
  \A k \in DOMAIN tokens :
    LET start == tokens[k].Start
        ch    == At(query, start)
        d     == options.Dialect
    IN (/\ isString(ch, d) \/ ch \in IdentifierOpeners(d)
        /\ ~HasAfter(start, endTokens(ch))) =>
         /\ tokens[k].Type = IF isString(ch, d) THEN TokenString ELSE TokenKeyword
         /\ TokenLast(tokens[k]) = TopEnd

====
